---- MODULE Spec2Model ----
(***************************************************************************)
(* pws_exporter: the DNS responder (internal/dns) and the Weather          *)
(* Underground capture endpoint (internal/exporter/wu), as state machines. *)
(*                                                                         *)
(* DNSSpec: a dns.Server built by NewServer from some Config, and the      *)
(*          ServeDNS goroutines the listener starts, one per request.      *)
(* WUSpec:  a SubmissionAPI, its ServeHTTP goroutines and the callback     *)
(*          goroutines they start.                                         *)
(* SinkSpec: the exporter's SubmissionAPI, whose callback is               *)
(*          Exporter.handleWUSubmission, and the metric vectors it writes. *)
(* OrchSpec: an Exporter whose ListenAndServe and Close are called by any  *)
(*          number of goroutines, and the listener tasks they run.         *)
(* ProcSpec: the process of cmd/pws_exporter, from run() to its exit.      *)
(* DecodeSpec: one call of DeviceMeasurement.fromQuery on a query.         *)
(* ConvSpec: one call of ftoc, inToMM, mphToKPH or inHgToHPA on a number.  *)
(***************************************************************************)
EXTENDS Integers, Sequences, FiniteSets, TLC

VARIABLES
    dnsServer,     \* the dns.Server struct: records, forwardDomains, upstreamResolver
    dnsHandlers,   \* one entry per ServeDNS goroutine, in order of arrival
    httpHandlers,  \* one entry per SubmissionAPI.ServeHTTP goroutine
    callbacks,     \* per ServeHTTP goroutine, the callback goroutines it started
    stationID,     \* TestSubmission: the station the callback saw last
    lastMeasurement, \* TestSubmission: <<>> (nil), or <<the measurement it saw last>>
    metrics,       \* Exporter.metrics: per vector, the series of each station_id
    counters,      \* per callback goroutine, the Counter that Rain.With(l) returned
    crashed,       \* the process died of a panic in a goroutine
    overlapped,    \* history: the callbacks that ran while another of their station ran
    lastDone,      \* history: per station, the callback that returned last
    exporter,      \* the Exporter struct: dnsListenAddress, running, dnsServer, httpServer
    las,           \* one entry per invocation of Exporter.ListenAndServe
    closes,        \* one entry per invocation of Exporter.Close
    proc,          \* cmd/pws_exporter run(): its position, the signal, the metrics server, the exit status
    query,         \* the url.Values a lone call of fromQuery is given
    decoded,       \* <<>>, or <<the clock it read, the measurement and the error of that call>>
    convIn,        \* the float32 a lone call of a unit conversion is given
    convOut        \* <<>>, or <<the conversion called, the float32 it returned>>

dnsVars == <<dnsServer, dnsHandlers>>
wuVars  == <<httpHandlers, callbacks, stationID, lastMeasurement>>
sinkVars == <<metrics, counters, crashed, overlapped, lastDone>>
orchVars == <<exporter, las, closes, proc>>
pureVars == <<query, decoded, convIn, convOut>>
vars    == <<dnsServer, dnsHandlers, httpHandlers, callbacks, stationID, lastMeasurement,
             metrics, counters, crashed, overlapped, lastDone,
             exporter, las, closes, proc, query, decoded, convIn, convOut>>

(***************************************************************************)
(* Bounds of the model.                                                    *)
(***************************************************************************)
\* DNS requests received in one behaviour (their handlers run concurrently).
MaxReq == 2
\* HTTP submissions received in one behaviour.
MaxHTTP == 2
\* Invocations of Exporter.ListenAndServe and of Exporter.Close, together, in
\* one behaviour.
MaxCalls == 3
\* The whole numbers -MaxWhole..MaxWhole are given to the unit conversions,
\* besides the inputs of the package's test tables.
MaxWhole == 10

Range(f) == {f[x] : x \in DOMAIN f}

(***************************************************************************)
(* DNS messages (github.com/miekg/dns, as far as ServeDNS reads or writes   *)
(* them).                                                                  *)
(***************************************************************************)
TypeA    == "A"
TypeAAAA == "AAAA"
ClassINET == "IN"
RcodeSuccess   == "NOERROR"
RcodeNameError == "NXDOMAIN"
RcodeServerFailure == "SERVFAIL"

\* net.IP: nil, or the four octets of an IPv4 address.
NilIP == <<>>

\* net.ParseIP on the address literals of the model: an IPv4 literal parses
\* to its octets, anything else to nil.
ParseIP(ip) ==
    CASE ip = "192.0.2.10" -> <<192, 0, 2, 10>>
      [] ip = "192.0.2.20" -> <<192, 0, 2, 20>>
      [] OTHER -> NilIP

\* Msg.SetReply: a response to `request` with its Id and first question.
SetReply(request) ==
    [Id       |-> request.Id,
     Response |-> TRUE,
     Rcode    |-> RcodeSuccess,
     Question |-> IF Len(request.Question) > 0
                  THEN <<request.Question[1]>> ELSE <<>>,
     Answer   |-> <<>>]

\* Msg.SetRcode: SetReply with the given response code.
SetRcode(request, rcode) == [SetReply(request) EXCEPT !.Rcode = rcode]

(***************************************************************************)
(* The exporter's tables (package exporter).                               *)
(***************************************************************************)
wuDomains ==
    <<"weatherstation.wunderground.com", "rtupdate.wunderground.com">>

forwardDomains ==
    <<"time.nist.gov.", "time-nw.nist.gov.", "time-a.nist.gov.",
      "time-b.nist.gov.", "time.windows.com.">>

\* Exporter.ListenAndServe, "Setup DNS server": the dns.Config it builds.
ExporterDNSConfig(exporterIP, upstream) ==
    [UpstreamResolver |-> upstream,
     Records          |-> [n \in {wuDomains[k] \o "." : k \in DOMAIN wuDomains}
                              |-> exporterIP],
     ForwardDomains   |-> forwardDomains]

\* dns.NewServer: the records map is kept, the forward list becomes a set.
NewServer(c) ==
    [records          |-> c.Records,
     forwardDomains   |-> Range(c.ForwardDomains),
     upstreamResolver |-> c.UpstreamResolver]

(***************************************************************************)
(* Configurations the server is constructed with in the model: the         *)
(* exporter's own, and others NewServer accepts (overlapping tables, keys   *)
(* that differ from a listed name in case or trailing dot, an address that  *)
(* is no IP literal, empty tables).                                        *)
(***************************************************************************)
Upstream == "8.8.8.8:53"

Configs ==
    { ExporterDNSConfig("192.0.2.10", Upstream),
      [UpstreamResolver |-> Upstream,
       Records          |-> [n \in {"rtupdate.wunderground.com.", "time.nist.gov."}
                                |-> IF n = "time.nist.gov." THEN "192.0.2.20"
                                                            ELSE "192.0.2.10"],
       ForwardDomains   |-> <<"time.nist.gov.", "time.windows.com.">>],
      [UpstreamResolver |-> "1.1.1.1:53",
       Records          |-> [n \in {"RTUPDATE.wunderground.com."} |-> "exporter.lan"],
       ForwardDomains   |-> <<"a.time.nist.gov.", "time.nist.gov">>],
      [UpstreamResolver |-> Upstream,
       Records          |-> [n \in {"rtupdate.wunderground.com"} |-> "192.0.2.10"],
       ForwardDomains   |-> <<"nist.gov.", "time.nist.gov.">>],
      [UpstreamResolver |-> Upstream,
       Records          |-> <<>>,
       ForwardDomains   |-> <<>>] }

\* Names a request can ask for. On the wire every name is fully qualified.
QNames ==
    { "rtupdate.wunderground.com.",   \* a vendor submission domain
      "RTUPDATE.wunderground.com.",   \* ... in another case
      "time.nist.gov.",               \* a forward domain
      "a.time.nist.gov.",             \* ... a subdomain of it
      "nist.gov.",                    \* ... a suffix of it
      "time.nist.gov.example.org." }  \* ... with it as a prefix

Questions == [Name : QNames, Qtype : {TypeA, TypeAAAA}]

\* Request messages: no question, one question, or two.
Requests ==
    [Id : {7, 9}, Response : {FALSE}, Rcode : {RcodeSuccess}, Answer : {<<>>},
     Question : {<<>>} \cup {<<q>> : q \in Questions}
                \cup {<<q, [Name |-> "time.nist.gov.", Qtype |-> TypeA]>> :
                        q \in [Name : {"rtupdate.wunderground.com.", "nist.gov."},
                               Qtype : {TypeA}]}]

(***************************************************************************)
(* Server.ServeDNS                                                         *)
(***************************************************************************)
\* The name one label up: what a suffix match would compare with the tables.
Parent(name) ==
    CASE name = "a.time.nist.gov." -> "time.nist.gov."
      [] name = "time.nist.gov."   -> "nist.gov."
      [] OTHER -> name

\* Route, matching the Forward Domain Set by suffix.
RouteSuffix(s, r) ==
    IF Len(r.Question) # 1 THEN "drop"
    ELSE LET q == r.Question[1] IN
         IF q.Qtype = TypeA /\ q.Name \in DOMAIN s.records THEN "local"
         ELSE IF q.Name \in s.forwardDomains \/ Parent(q.Name) \in s.forwardDomains
              THEN "forward"
         ELSE "nxdomain"

\* Route, dropping only a request without questions.
RouteFirstQuestion(s, r) ==
    IF Len(r.Question) = 0 THEN "drop"
    ELSE LET q == r.Question[1] IN
         IF q.Qtype = TypeA /\ q.Name \in DOMAIN s.records THEN "local"
         ELSE IF q.Name \in s.forwardDomains THEN "forward"
         ELSE "nxdomain"

\* Route, with the Forward Domain Set consulted first.
RouteForwardFirst(s, r) ==
    IF Len(r.Question) # 1 THEN "drop"
    ELSE LET q == r.Question[1] IN
         IF q.Name \in s.forwardDomains THEN "forward"
         ELSE IF q.Qtype = TypeA /\ q.Name \in DOMAIN s.records THEN "local"
         ELSE "nxdomain"

\* Route, answering every query type from the Record Table.
RouteAnyType(s, r) ==
    IF Len(r.Question) # 1 THEN "drop"
    ELSE LET q == r.Question[1] IN
         IF q.Name \in DOMAIN s.records THEN "local"
         ELSE IF q.Name \in s.forwardDomains THEN "forward"
         ELSE "nxdomain"

\* The branch ServeDNS takes for request r.
Route(s, r) ==
    IF Len(r.Question) # 1 THEN "drop"
    ELSE LET q == r.Question[1] IN
         IF q.Qtype = TypeA /\ q.Name \in DOMAIN s.records THEN "local"
         ELSE IF q.Name \in s.forwardDomains THEN "forward"
         ELSE "nxdomain"

\* LocalAnswer, without the TTL.
LocalAnswerNoTTL(r, domain, ip) ==
    [SetReply(r) EXCEPT !.Answer =
        <<[Name |-> domain, Rrtype |-> TypeA, Class |-> ClassINET,
           Ttl |-> 0, A |-> ParseIP(ip)]>>]

\* The reply built from the Record Table: one A record for the queried name.
LocalAnswer(r, domain, ip) ==
    [SetReply(r) EXCEPT !.Answer =
        <<[Name |-> domain, Rrtype |-> TypeA, Class |-> ClassINET,
           Ttl |-> 3600, A |-> ParseIP(ip)]>>]

\* Blackhole, without the response code.
BlackholeNoRcode(r) == SetReply(r)

\* The reply to a name in neither table.
Blackhole(r) == SetRcode(r, RcodeNameError)

\* ExchangeMsg, as a fresh query for the same question.
ExchangeFresh(r) == [r EXCEPT !.Id = 0]

\* The message handed to dnsClient.Exchange: the request itself.
ExchangeMsg(r) == r

\* ForwardReply, writing the result whether or not Exchange failed.
ForwardReplyAlways(res, err) == <<res>>

\* What is written to the client once Exchange has returned (res, err).
ForwardReply(res, err) == IF err THEN <<>> ELSE <<res>>

\* What the upstream resolver can make Exchange return for a query m: a
\* response with m's Id, or an error (time-out, refused connection, bad message).
UpstreamResponses(m) ==
    { [SetReply(m) EXCEPT !.Answer =
          <<[Name |-> m.Question[1].Name, Rrtype |-> m.Question[1].Qtype,
             Class |-> ClassINET, Ttl |-> 60, A |-> <<129, 6, 15, 28>>]>>],
      SetRcode(m, RcodeServerFailure) }

NoMsg == [Id |-> 0, Response |-> FALSE, Rcode |-> RcodeSuccess,
          Question |-> <<>>, Answer |-> <<>>]

\* The listener hands a request to a new ServeDNS goroutine.
Serve(r) ==
    /\ Len(dnsHandlers) < MaxReq
    /\ dnsHandlers' = Append(dnsHandlers,
          [msg |-> r, pc |-> "ServeDNS", lookups |-> {},
           exchanges |-> <<>>, res |-> NoMsg, err |-> FALSE, replies |-> <<>>])
    /\ UNCHANGED <<dnsServer, wuVars, sinkVars, orchVars, pureVars>>

\* ServeDNS from its entry to its return, or to the call of Exchange.
ServeDNS(i) ==
    LET h == dnsHandlers[i]
        r == h.msg
        s == dnsServer
        route == Route(s, r)
    IN
    /\ h.pc = "ServeDNS"
    /\ dnsHandlers' = [dnsHandlers EXCEPT ![i] =
          CASE route = "drop" -> [h EXCEPT !.pc = "done"]
            [] route = "local" ->
                 [h EXCEPT !.pc = "done",
                           !.lookups = {"records"},
                           !.replies = Append(@,
                               LocalAnswer(r, r.Question[1].Name,
                                           s.records[r.Question[1].Name]))]
            [] route = "forward" ->
                 [h EXCEPT !.pc = "Exchange",
                           !.lookups = (IF r.Question[1].Qtype = TypeA
                                        THEN {"records"} ELSE {})
                                       \cup {"forwardDomains"},
                           !.exchanges = Append(@,
                               [m |-> ExchangeMsg(r), address |-> s.upstreamResolver])]
            [] OTHER ->
                 [h EXCEPT !.pc = "done",
                           !.lookups = (IF r.Question[1].Qtype = TypeA
                                        THEN {"records"} ELSE {})
                                       \cup {"forwardDomains"},
                           !.replies = Append(@, Blackhole(r))]]
    /\ UNCHANGED <<dnsServer, wuVars, sinkVars, orchVars, pureVars>>

\* The upstream resolver answers the exchange of handler i.
UpstreamAnswers(i) ==
    LET h == dnsHandlers[i] IN
    /\ h.pc = "Exchange"
    /\ \E res \in UpstreamResponses(h.exchanges[Len(h.exchanges)].m) :
          dnsHandlers' = [dnsHandlers EXCEPT ![i] =
              [h EXCEPT !.pc = "Exchanged", !.res = res, !.err = FALSE]]
    /\ UNCHANGED <<dnsServer, wuVars, sinkVars, orchVars, pureVars>>

\* The exchange of handler i fails.
UpstreamFails(i) ==
    LET h == dnsHandlers[i] IN
    /\ h.pc = "Exchange"
    /\ dnsHandlers' = [dnsHandlers EXCEPT ![i] =
          [h EXCEPT !.pc = "Exchanged", !.err = TRUE]]
    /\ UNCHANGED <<dnsServer, wuVars, sinkVars, orchVars, pureVars>>

\* A handler that would keep the name it forwarded as a local record.
ServeDNSForwardedCaching(i) ==
    LET h == dnsHandlers[i]
        name == h.msg.Question[1].Name
    IN
    /\ h.pc = "Exchanged"
    /\ dnsHandlers' = [dnsHandlers EXCEPT ![i] =
          [h EXCEPT !.pc = "done",
                    !.replies = @ \o ForwardReply(h.res, h.err)]]
    /\ dnsServer' = [dnsServer EXCEPT !.records =
          [n \in DOMAIN dnsServer.records \cup {name} |->
              IF n \in DOMAIN dnsServer.records THEN dnsServer.records[n]
              ELSE "192.0.2.20"]]
    /\ UNCHANGED <<wuVars, sinkVars, orchVars, pureVars>>

\* ServeDNS after Exchange has returned: relay the response, or drop.
ServeDNSForwarded(i) ==
    LET h == dnsHandlers[i] IN
    /\ h.pc = "Exchanged"
    /\ dnsHandlers' = [dnsHandlers EXCEPT ![i] =
          [h EXCEPT !.pc = "done",
                    !.replies = @ \o ForwardReply(h.res, h.err)]]
    /\ UNCHANGED <<dnsServer, wuVars, sinkVars, orchVars, pureVars>>

DNSInit ==
    /\ \E c \in Configs : dnsServer = NewServer(c)
    /\ dnsHandlers = <<>>

DNSNext ==
    \/ \E r \in Requests : Serve(r)
    \/ \E i \in DOMAIN dnsHandlers : ServeDNS(i)
    \/ \E i \in DOMAIN dnsHandlers : UpstreamAnswers(i)
    \/ \E i \in DOMAIN dnsHandlers : UpstreamFails(i)
    \/ \E i \in DOMAIN dnsHandlers : ServeDNSForwarded(i)

(***************************************************************************)
(* package wu: the submission API.                                         *)
(*                                                                         *)
(* A request's query (url.Values) is a function from parameter names to    *)
(* the list of values given for it, empty when the parameter is absent.    *)
(* A float32 is kept as an integer number of ten-thousandths.              *)
(***************************************************************************)
Params ==
    { "action", "ID", "PASSWORD", "dateutc", "realtime", "rtfreq", "winddir",
      "windspeedmph", "windgustmph", "humidity", "dewptf", "tempf", "rainin",
      "dailyrainin", "baromin", "indoortempf", "indoorhumidity" }

\* url.Values.Get: the first value of the parameter, "" when it has none.
Get(q, key) == IF q[key] = <<>> THEN "" ELSE q[key][1]

\* url.Values.Has: whether the parameter is present.
Has(q, key) == q[key] # <<>>

StatusOK == 200
StatusBadRequest == 400

\* http.StatusText
StatusText(code) ==
    CASE code = StatusOK -> "OK"
      [] code = StatusBadRequest -> "Bad Request"
      [] OTHER -> ""

\* x * n / d rounded to the nearest integer, for 0 < d <= 20000, without
\* leaving 32 bits.
MulDiv(x, n, d) ==
    LET xq == x \div d
        xr == x % d
        nq == n \div d
        nr == n % d
    IN xq * n + xr * nq + ((xr * nr + (d \div 2)) \div d)

\* strconv.ParseFloat(v, 32) on the literals of the model: <<value, ok>>.
stof(v) ==
    CASE v = "0.0"   -> <<0, TRUE>>
      [] v = "1.0"   -> <<10000, TRUE>>
      [] v = "-1"    -> <<0 - 10000, TRUE>>
      [] v = "5"     -> <<50000, TRUE>>
      [] v = "4.4"   -> <<44000, TRUE>>
      [] v = "4.9"   -> <<49000, TRUE>>
      [] v = "29.65" -> <<296500, TRUE>>
      [] v = "44"    -> <<440000, TRUE>>
      [] v = "51.2"  -> <<512000, TRUE>>
      [] v = "63.5"  -> <<635000, TRUE>>
      [] v = "64"    -> <<640000, TRUE>>
      [] v = "73.5"  -> <<735000, TRUE>>
      [] v = "270"   -> <<2700000, TRUE>>
      [] OTHER       -> <<0, FALSE>>

\* No conversion at all.
ftocUnconverted(f) == f
\* (f - 32) / 1.8
ftoc(f) == MulDiv(f - 320000, 5, 9)
\* Inches to centimetres.
inToCM(f) == MulDiv(f, 254, 100)
\* f * 25.4
inToMM(f) == MulDiv(f, 254, 10)
\* f * 1.609344
mphToKPH(f) == MulDiv(f, 25146, 15625)
\* inHg * 33.8639
inHgToHPA(inHg) == MulDiv(inHg, 338639, 10000)

\* time.ParseInLocation("2006-01-02 15:04:05", v, time.UTC) on the literals
\* of the model: <<time, ok>>.
ZeroTime == "0001-01-01T00:00:00Z"
\* A parser that would also take the RFC 3339 form.
ParseInLocationLenient(v) ==
    CASE v = "2025-01-02 03:04:05" -> <<"2025-01-02T03:04:05Z", TRUE>>
      [] v = "2025-01-02T03:04:05Z" -> <<"2025-01-02T03:04:05Z", TRUE>>
      [] OTHER -> <<ZeroTime, FALSE>>

ParseInLocation(v) ==
    CASE v = "2025-01-02 03:04:05" -> <<"2025-01-02T03:04:05Z", TRUE>>
      [] OTHER -> <<ZeroTime, FALSE>>

\* What time.Now().UTC() can return.
Now == {"2026-11-02T11:00:00Z", "2026-11-02T11:00:01Z"}

\* The zero DeviceMeasurement (`var dm DeviceMeasurement`).
ZeroMeasurement ==
    [DateUTC |-> ZeroTime, RealTime |-> FALSE, RealTimeFreq |-> 0,
     WindDirection |-> 0, WindSpeed |-> 0, WindGust |-> 0, Humidity |-> 0,
     DewPoint |-> 0, Temperature |-> 0, RainPastHour |-> 0, RainToday |-> 0,
     Barometric |-> 0, IndoorTemp |-> 0, IndoorHumidity |-> 0]

\* stof(q.Get(key)): the parsed value, and whether it parsed.
Value(q, key) == stof(Get(q, key))[1]
\* A decoder that would store the value of a failed parse.
OkAlways(q, key) == TRUE
Ok(q, key) == stof(Get(q, key))[2]

\* DeviceMeasurement.fromQuery, with `now` the value of time.Now().UTC():
\* [dm, err]. Every field starts at zero and is set only when its parameter
\* parses.
fromQuery(q, now) ==
    LET useNow == Get(q, "dateutc") \in {"", "now"}
        parsed == ParseInLocation(Get(q, "dateutc"))
    IN
    IF ~useNow /\ ~parsed[2]
    THEN [dm |-> ZeroMeasurement, err |-> "parse dateutc"]
    ELSE [err |-> "",
          dm |->
            [DateUTC        |-> IF useNow THEN now ELSE parsed[1],
             RealTime       |-> Has(q, "realtime") /\ Get(q, "realtime") = "1",
             RealTimeFreq   |-> IF Ok(q, "rtfreq") THEN Value(q, "rtfreq") ELSE 0,
             WindDirection  |-> IF Ok(q, "winddir") THEN Value(q, "winddir") ELSE 0,
             WindSpeed      |-> IF Ok(q, "windspeedmph") THEN mphToKPH(Value(q, "windspeedmph")) ELSE 0,
             WindGust       |-> IF Ok(q, "windgustmph") THEN mphToKPH(Value(q, "windgustmph")) ELSE 0,
             Humidity       |-> IF Ok(q, "humidity") THEN Value(q, "humidity") ELSE 0,
             DewPoint       |-> IF Ok(q, "dewptf") THEN ftoc(Value(q, "dewptf")) ELSE 0,
             Temperature    |-> IF Ok(q, "tempf") THEN ftoc(Value(q, "tempf")) ELSE 0,
             RainPastHour   |-> IF Ok(q, "rainin") THEN inToMM(Value(q, "rainin")) ELSE 0,
             RainToday      |-> IF Ok(q, "dailyrainin") THEN inToMM(Value(q, "dailyrainin")) ELSE 0,
             Barometric     |-> IF Ok(q, "baromin") THEN inHgToHPA(Value(q, "baromin")) ELSE 0,
             IndoorTemp     |-> IF Ok(q, "indoortempf") THEN ftoc(Value(q, "indoortempf")) ELSE 0,
             IndoorHumidity |-> IF Ok(q, "indoorhumidity") THEN Value(q, "indoorhumidity") ELSE 0]]

\* Rejected, without the check of PASSWORD.
RejectedNoPassword(q) ==
    Get(q, "action") # "updateraww" \/ ~Has(q, "ID")

\* The parameter check of ServeHTTP: whether the request is rejected.
Rejected(q) ==
    Get(q, "action") # "updateraww" \/ ~Has(q, "ID") \/ ~Has(q, "PASSWORD")

\* Submission, started before the measurement is decoded.
SubmissionZero(q, dm) == [deviceID |-> Get(q, "ID"), dm |-> ZeroMeasurement]

\* The arguments of `go wu.handleSubmission(q.Get("ID"), dm)`.
Submission(q, dm) == [deviceID |-> Get(q, "ID"), dm |-> dm]

\* The response ServeHTTP writes after the callback is started.
Success == [status |-> StatusOK, body |-> "success\n"]

\* http.Error(w, http.StatusText(code), code)
Error(code) == [status |-> code, body |-> StatusText(code) \o "\n"]

NoResponse == [status |-> 0, body |-> ""]

(***************************************************************************)
(* The submissions of the model.                                           *)
(***************************************************************************)
NoQuery == [k \in Params |-> <<>>]

With(q, kvs) == [k \in Params |-> IF k \in DOMAIN kvs THEN kvs[k] ELSE q[k]]

\* The sensor parameters of a submission: those of the package's test
\* query, none, and a set with an unparsable and a negative number.
Readings ==
    { [k \in {} |-> <<>>],
      [realtime |-> <<"1">>, rtfreq |-> <<"5">>, baromin |-> <<"29.65">>,
       tempf |-> <<"63.5">>, dewptf |-> <<"51.2">>, humidity |-> <<"64">>,
       windspeedmph |-> <<"4.4">>, windgustmph |-> <<"4.9">>,
       winddir |-> <<"270">>, rainin |-> <<"0.0">>, dailyrainin |-> <<"0.0">>,
       indoortempf |-> <<"73.5">>, indoorhumidity |-> <<"44">>],
      [realtime |-> <<"0">>, tempf |-> <<"warm">>, humidity |-> <<"">>,
       dailyrainin |-> <<"1.0">>, rainin |-> <<"-1">>] }

\* Every combination of the three checked parameters, with dateutc=now and
\* one reading ...
CheckedQueries ==
    { With(With(NoQuery, [dateutc |-> <<"now">>, tempf |-> <<"63.5">>]),
           [action |-> a, ID |-> id, PASSWORD |-> pw]) :
        a  \in {<<>>, <<"updateraww">>, <<"updateraw", "updateraww">>},
        id \in {<<>>, <<"">>, <<"KS1", "test">>},
        pw \in {<<>>, <<"">>} }

TestQuery(rd, d) ==
    With(With(NoQuery, rd),
         [action |-> <<"updateraww">>, ID |-> <<"test">>,
          PASSWORD |-> <<"testtest">>, dateutc |-> d])

TestReadings == CHOOSE rd \in Readings : "baromin" \in DOMAIN rd

\* ... and, in a request that passes the check, every set of readings and
\* every kind of dateutc.
DecodedQueries ==
    { TestQuery(rd, <<"now">>) : rd \in Readings }
    \cup { TestQuery(TestReadings, d) :
             d \in {<<>>, <<"">>, <<"2025-01-02 03:04:05">>,
                    <<"2025-01-02T03:04:05Z">>} }

Queries == CheckedQueries \cup DecodedQueries

(***************************************************************************)
(* SubmissionAPI.ServeHTTP and the callback                                *)
(***************************************************************************)
\* The HTTP server hands a request to a new ServeHTTP goroutine.
Request(q) ==
    /\ Len(httpHandlers) < MaxHTTP
    /\ httpHandlers' = Append(httpHandlers,
          [q |-> q, pc |-> "ServeHTTP", response |-> NoResponse])
    /\ callbacks' = Append(callbacks, <<>>)
    /\ UNCHANGED <<stationID, lastMeasurement, dnsVars, sinkVars, orchVars, pureVars>>

\* A handler that would start the callback whatever fromQuery returned.
ServeHTTPUndecoded(i) ==
    LET h == httpHandlers[i] IN
    /\ h.pc = "ServeHTTP"
    /\ \E now \in Now :
         LET d == fromQuery(h.q, now) IN
         IF Rejected(h.q)
         THEN /\ httpHandlers' = [httpHandlers EXCEPT ![i] =
                    [h EXCEPT !.pc = "done", !.response = Error(StatusBadRequest)]]
              /\ UNCHANGED callbacks
         ELSE /\ httpHandlers' = [httpHandlers EXCEPT ![i] =
                    [h EXCEPT !.pc = "WriteHeader"]]
              /\ callbacks' = [callbacks EXCEPT ![i] =
                    Append(@, [arg |-> Submission(h.q, d.dm), pc |-> "started"])]
    /\ UNCHANGED <<stationID, lastMeasurement, dnsVars, sinkVars, orchVars, pureVars>>

\* ServeHTTP from its entry to a 400 response, or to the start of the
\* callback goroutine.
ServeHTTP(i) ==
    LET h == httpHandlers[i] IN
    /\ h.pc = "ServeHTTP"
    /\ \E now \in Now :
         LET d == fromQuery(h.q, now) IN
         IF Rejected(h.q) \/ d.err # ""
         THEN /\ httpHandlers' = [httpHandlers EXCEPT ![i] =
                    [h EXCEPT !.pc = "done", !.response = Error(StatusBadRequest)]]
              /\ UNCHANGED callbacks
         ELSE /\ httpHandlers' = [httpHandlers EXCEPT ![i] =
                    [h EXCEPT !.pc = "WriteHeader"]]
              /\ callbacks' = [callbacks EXCEPT ![i] =
                    Append(@, [arg |-> Submission(h.q, d.dm), pc |-> "started"])]
    /\ UNCHANGED <<stationID, lastMeasurement, dnsVars, sinkVars, orchVars, pureVars>>

\* A handler that would join its callback before it answers.
WriteSuccessAfterCallback(i) ==
    LET h == httpHandlers[i] IN
    /\ h.pc = "WriteHeader"
    /\ callbacks[i][1].pc = "done"
    /\ httpHandlers' = [httpHandlers EXCEPT ![i] =
          [h EXCEPT !.pc = "done", !.response = Success]]
    /\ UNCHANGED <<callbacks, stationID, lastMeasurement, dnsVars, sinkVars, orchVars, pureVars>>

\* ServeHTTP after the go statement: the 200 response.
WriteSuccess(i) ==
    LET h == httpHandlers[i] IN
    /\ h.pc = "WriteHeader"
    /\ httpHandlers' = [httpHandlers EXCEPT ![i] =
          [h EXCEPT !.pc = "done", !.response = Success]]
    /\ UNCHANGED <<callbacks, stationID, lastMeasurement, dnsVars, sinkVars, orchVars, pureVars>>

\* A callback that would keep the station and drop the measurement.
handleSubmissionUnrecorded(i, k) ==
    /\ callbacks[i][k].pc = "started"
    /\ callbacks' = [callbacks EXCEPT ![i][k].pc = "done"]
    /\ stationID' = callbacks[i][k].arg.deviceID
    /\ UNCHANGED <<lastMeasurement, httpHandlers, dnsVars, sinkVars, orchVars, pureVars>>

\* A callback goroutine started by handler i runs handleSubmission: the
\* callback the package's test registers, which records the station and the
\* measurement.
handleSubmission(i, k) ==
    /\ callbacks[i][k].pc = "started"
    /\ callbacks' = [callbacks EXCEPT ![i][k].pc = "done"]
    /\ stationID' = callbacks[i][k].arg.deviceID
    /\ lastMeasurement' = <<callbacks[i][k].arg.dm>>
    /\ UNCHANGED <<httpHandlers, dnsVars, sinkVars, orchVars, pureVars>>

WUNext ==
    \/ \E q \in Queries : Request(q)
    \/ \E i \in DOMAIN httpHandlers : ServeHTTP(i)
    \/ \E i \in DOMAIN httpHandlers : WriteSuccess(i)
    \/ \E i \in DOMAIN callbacks : \E k \in DOMAIN callbacks[i] :
          handleSubmission(i, k)

(***************************************************************************)
(* Exporter.handleWUSubmission and the metric vectors                      *)
(***************************************************************************)
\* The station IDs of the model.
Stations == {"test", "KS1"}

\* A vector without series.
NoSeries == [s \in {} |-> 0]

\* The vectors newMetrics registers, by their field in Metrics.
newMetrics ==
    [BarometricPressure |-> NoSeries, DewPoint |-> NoSeries,
     Humidity |-> NoSeries, IndoorHumidity |-> NoSeries,
     IndoorTemperature |-> NoSeries, RainPastHour |-> NoSeries,
     Rain |-> NoSeries, Temperature |-> NoSeries, WindDirection |-> NoSeries,
     WindGustSpeed |-> NoSeries, WindSpeed |-> NoSeries]

\* A vector whose series would all take the value.
SetEvery(vec, s, v) == [x \in DOMAIN vec \cup {s} |-> v]

\* vec.With(l).Set(v), on a GaugeVec: the series of station s, made if it is
\* not there, holds v.
Set(vec, s, v) == [x \in DOMAIN vec \cup {s} |-> IF x = s THEN v ELSE vec[x]]

\* vec.Delete(l): the vector without the series of station s.
Delete(vec, s) == [x \in DOMAIN vec \ {s} |-> vec[x]]

\* A callback that would store the humidities as percentages.
GaugeStmtsPercent(dm) ==
    [started |-> [vec |-> "BarometricPressure", v |-> dm.Barometric, next |-> "l34"],
     l34 |-> [vec |-> "DewPoint", v |-> dm.DewPoint, next |-> "l35"],
     l35 |-> [vec |-> "Humidity", v |-> dm.Humidity, next |-> "l36"],
     l36 |-> [vec |-> "IndoorHumidity", v |-> dm.IndoorHumidity, next |-> "l37"],
     l37 |-> [vec |-> "IndoorTemperature", v |-> dm.IndoorTemp, next |-> "l38"],
     l38 |-> [vec |-> "RainPastHour", v |-> dm.RainPastHour, next |-> "l39"],
     l41 |-> [vec |-> "Temperature", v |-> dm.Temperature, next |-> "l42"],
     l42 |-> [vec |-> "WindDirection", v |-> dm.WindDirection, next |-> "l43"],
     l43 |-> [vec |-> "WindGustSpeed", v |-> dm.WindGust, next |-> "l44"],
     l44 |-> [vec |-> "WindSpeed", v |-> dm.WindSpeed, next |-> "done"]]

\* The gauge statements of handleWUSubmission, by the position of the
\* goroutine before them: the vector, the value and the position after.
GaugeStmts(dm) ==
    [started |-> [vec |-> "BarometricPressure", v |-> dm.Barometric, next |-> "l34"],
     l34 |-> [vec |-> "DewPoint", v |-> dm.DewPoint, next |-> "l35"],
     l35 |-> [vec |-> "Humidity", v |-> MulDiv(dm.Humidity, 1, 100), next |-> "l36"],
     l36 |-> [vec |-> "IndoorHumidity", v |-> MulDiv(dm.IndoorHumidity, 1, 100), next |-> "l37"],
     l37 |-> [vec |-> "IndoorTemperature", v |-> dm.IndoorTemp, next |-> "l38"],
     l38 |-> [vec |-> "RainPastHour", v |-> dm.RainPastHour, next |-> "l39"],
     l41 |-> [vec |-> "Temperature", v |-> dm.Temperature, next |-> "l42"],
     l42 |-> [vec |-> "WindDirection", v |-> dm.WindDirection, next |-> "l43"],
     l43 |-> [vec |-> "WindGustSpeed", v |-> dm.WindGust, next |-> "l44"],
     l44 |-> [vec |-> "WindSpeed", v |-> dm.WindSpeed, next |-> "done"]]

\* The callback goroutines of station s that have executed a statement of
\* handleWUSubmission and have not returned.
Running(s) ==
    {id \in UNION {{<<i, k>> : k \in DOMAIN callbacks[i]} : i \in DOMAIN callbacks} :
        /\ callbacks[id[1]][id[2]].arg.deviceID = s
        /\ callbacks[id[1]][id[2]].pc \notin {"started", "done"}}

\* Callback goroutine <<i, k>> moves to position `next`; the history
\* variables record whether it ran while another callback of its station
\* was running, and which callback of the station returned last.
Step(i, k, next) ==
    LET s == callbacks[i][k].arg.deviceID
        others == Running(s) \ {<<i, k>>}
    IN
    /\ callbacks' = [callbacks EXCEPT ![i][k].pc = next]
    /\ overlapped' = IF others = {} THEN overlapped
                     ELSE overlapped \cup others \cup {<<i, k>>}
    /\ lastDone' = IF next = "done" /\ s \in Stations
                   THEN [lastDone EXCEPT ![s] = <<i, k>>]
                   ELSE lastDone

\* m.X.With(l).Set(float64(dm.Y)): one of the ten gauge statements.
SetGauge(i, k) ==
    LET c == callbacks[i][k]
        st == GaugeStmts(c.arg.dm)[c.pc]
    IN
    /\ ~crashed
    /\ c.pc \in DOMAIN GaugeStmts(ZeroMeasurement)
    /\ metrics' = [metrics EXCEPT ![st.vec] = Set(@, c.arg.deviceID, st.v)]
    /\ Step(i, k, st.next)
    /\ UNCHANGED <<counters, crashed, httpHandlers, stationID, lastMeasurement, dnsVars, orchVars, pureVars>>

\* A callback that would leave the series of the station in the vector.
RainKept(i, k) ==
    /\ ~crashed
    /\ callbacks[i][k].pc = "l39"
    /\ Step(i, k, "l40")
    /\ UNCHANGED <<metrics, counters, crashed, httpHandlers, stationID,
                   lastMeasurement, dnsVars, orchVars, pureVars>>

\* m.Rain.Delete(l)
RainDelete(i, k) ==
    LET c == callbacks[i][k] IN
    /\ ~crashed
    /\ c.pc = "l39"
    /\ metrics' = [metrics EXCEPT !.Rain = Delete(@, c.arg.deviceID)]
    /\ Step(i, k, "l40")
    /\ UNCHANGED <<counters, crashed, httpHandlers, stationID, lastMeasurement, dnsVars, orchVars, pureVars>>

\* m.Rain.With(l): the Counter of the station's series, which is made, at
\* zero, if the vector has none. A Counter is known by the goroutine that
\* made it.
RainWith(i, k) ==
    LET c == callbacks[i][k]
        s == c.arg.deviceID
    IN
    /\ ~crashed
    /\ c.pc = "l40"
    /\ metrics' = [metrics EXCEPT !.Rain =
          IF s \in DOMAIN metrics.Rain
          THEN @ ELSE Set(@, s, [value |-> 0, by |-> <<i, k>>])]
    /\ counters' = [id \in DOMAIN counters \cup {<<i, k>>} |->
          IF id = <<i, k>> THEN metrics'.Rain[s].by ELSE counters[id]]
    /\ Step(i, k, "l40Add")
    /\ UNCHANGED <<crashed, httpHandlers, stationID, lastMeasurement, dnsVars, orchVars, pureVars>>

\* Counter.Add(float64(dm.RainToday)) on the Counter that With returned: a
\* negative value panics, and a panic in a goroutine ends the process; the
\* value goes to the station's series only if that Counter is still the one
\* in the vector.
RainAdd(i, k) ==
    LET c == callbacks[i][k]
        s == c.arg.deviceID
        v == c.arg.dm.RainToday
    IN
    /\ ~crashed
    /\ c.pc = "l40Add"
    /\ IF v < 0
       THEN /\ crashed' = TRUE
            /\ UNCHANGED <<metrics, callbacks, overlapped, lastDone>>
       ELSE /\ metrics' = [metrics EXCEPT !.Rain =
                  IF s \in DOMAIN @ /\ @[s].by = counters[<<i, k>>]
                  THEN [@ EXCEPT ![s].value = @ + v]
                  ELSE @]
            /\ Step(i, k, "l41")
            /\ UNCHANGED crashed
    /\ UNCHANGED <<counters, httpHandlers, stationID, lastMeasurement, dnsVars, orchVars, pureVars>>

\* The submissions of the specification: two stations, readings that differ
\* in every gauge and in the daily rain, a negative daily rain, and a
\* timestamp that does not parse.
SinkReadings ==
    { TestReadings,
      [baromin |-> <<"1.0">>, tempf |-> <<"73.5">>, dewptf |-> <<"44">>,
       humidity |-> <<"44">>, windspeedmph |-> <<"4.9">>,
       windgustmph |-> <<"5">>, winddir |-> <<"5">>, rainin |-> <<"1.0">>,
       dailyrainin |-> <<"1.0">>, indoortempf |-> <<"63.5">>,
       indoorhumidity |-> <<"64">>],
      [dailyrainin |-> <<"5">>] }

SinkQueries ==
    { TestQuery(rd, <<"2025-01-02 03:04:05">>) : rd \in SinkReadings }
    \cup { With(TestQuery(rd, <<"2025-01-02 03:04:05">>), [ID |-> <<"KS1">>]) :
             rd \in {TestReadings, [dailyrainin |-> <<"-1">>]} }
    \cup { TestQuery(TestReadings, <<"2025-01-02T03:04:05Z">>) }

SinkInit ==
    /\ metrics = newMetrics
    /\ counters = <<>>
    /\ crashed = FALSE
    /\ overlapped = {}
    /\ lastDone = [s \in Stations |-> <<>>]

SinkNext ==
    \/ \E q \in SinkQueries : ~crashed /\ Request(q)
    \/ \E i \in DOMAIN httpHandlers : ~crashed /\ ServeHTTP(i)
    \/ \E i \in DOMAIN httpHandlers : ~crashed /\ WriteSuccess(i)
    \/ \E i \in DOMAIN callbacks : \E k \in DOMAIN callbacks[i] : SetGauge(i, k)
    \/ \E i \in DOMAIN callbacks : \E k \in DOMAIN callbacks[i] : RainDelete(i, k)
    \/ \E i \in DOMAIN callbacks : \E k \in DOMAIN callbacks[i] : RainWith(i, k)
    \/ \E i \in DOMAIN callbacks : \E k \in DOMAIN callbacks[i] : RainAdd(i, k)

(***************************************************************************)
(* Exporter.ListenAndServe, Exporter.Close and the listener tasks          *)
(***************************************************************************)
\* A nil *dns.Server or *http.Server. A server is known by the invocation of
\* ListenAndServe that made it.
Nil == 0

\* The errors of the model; "" is the nil error.
ErrAlreadyRunning == "already running"
ErrCertificate == "generate self signed certificate"
ErrListen == "listen: address already in use"
ErrServe == "accept: use of closed file"
ErrServerClosed == "http: Server closed"
ErrNotStarted == "dns: server not started"
ErrDeadline == "context deadline exceeded"

\* The tasks of the errgroup of ListenAndServe.
Tasks == {"dns", "http", "tls"}

\* What the process outside the exporter leaves alone.
orchFrame == <<dnsVars, wuVars, metrics, counters, overlapped, lastDone, pureVars>>

\* The process runs: it has not died of a panic and run() has not returned.
Alive == ~crashed /\ proc.pc # "exited"

\* NewExporter(c): the listen addresses of the HTTP servers default to ":80"
\* and ":443", so only the DNS one can be empty.
NewExporter(dnsListenAddress) ==
    [exporterIP |-> "192.0.2.10",
     dnsListenAddress |-> dnsListenAddress, wuListenAddress |-> ":80",
     wuTLSListenAddress |-> ":443", running |-> FALSE,
     dnsServer |-> Nil, httpServer |-> Nil]

\* An invocation of ListenAndServe at its entry. httpServer and dnsServer are
\* the servers the invocation makes: the http.Server with its inShutdown
\* flag and its TLSConfig, the dns.Server with its wrapped miekg server
\* (dnsServer: not made, made) and that server's started flag.
NewCall ==
    [pc |-> "guard", err |-> "", result |-> "", tlsConfig |-> FALSE,
     tasks |-> [t \in Tasks |-> [pc |-> "none", err |-> ""]],
     httpServer |-> [made |-> FALSE, inShutdown |-> FALSE, TLSConfig |-> FALSE],
     localDomains |-> <<>>,
     dnsServer |-> [made |-> FALSE, records |-> <<>>, dnsServer |-> FALSE,
                    started |-> FALSE]]

\* A goroutine calls e.ListenAndServe().
CallListenAndServe ==
    /\ Alive
    /\ Len(las) + Len(closes) < MaxCalls
    /\ las' = Append(las, NewCall)
    /\ UNCHANGED <<exporter, closes, proc, crashed, orchFrame>>

\* A guard whose deferred reset would be registered before the test.
GuardDeferredFirst(c) ==
    /\ Alive
    /\ las[c].pc = "guard"
    /\ IF exporter.running
       THEN /\ las' = [las EXCEPT ![c].pc = "returned",
                                  ![c].result = ErrAlreadyRunning]
            /\ exporter' = [exporter EXCEPT !.running = FALSE]
       ELSE /\ las' = [las EXCEPT ![c].pc = "cert"]
            /\ exporter' = [exporter EXCEPT !.running = TRUE]
    /\ UNCHANGED <<closes, proc, crashed, orchFrame>>

\* running.CompareAndSwap(false, true), and the return of "already running".
Guard(c) ==
    /\ Alive
    /\ las[c].pc = "guard"
    /\ IF exporter.running
       THEN /\ las' = [las EXCEPT ![c].pc = "returned",
                                  ![c].result = ErrAlreadyRunning]
            /\ UNCHANGED exporter
       ELSE /\ las' = [las EXCEPT ![c].pc = "cert"]
            /\ exporter' = [exporter EXCEPT !.running = TRUE]
    /\ UNCHANGED <<closes, proc, crashed, orchFrame>>

\* genTLSCertificate() and the TLS configuration; on an error ListenAndServe
\* returns and its deferred CompareAndSwap(true, false) runs.
GenTLSCertificate(c) ==
    /\ Alive
    /\ las[c].pc = "cert"
    /\ \/ /\ exporter.wuTLSListenAddress # ""
          /\ las' = [las EXCEPT ![c].pc = "returned", ![c].result = ErrCertificate]
          /\ exporter' = [exporter EXCEPT !.running = FALSE]
       \/ /\ las' = [las EXCEPT ![c].pc = "httpServer",
                                ![c].tlsConfig = exporter.wuTLSListenAddress # ""]
          /\ UNCHANGED exporter
    /\ UNCHANGED <<closes, proc, crashed, orchFrame>>

\* e.httpServer = &http.Server{..., TLSConfig: tlsConfig}
SetupHTTP(c) ==
    /\ Alive
    /\ las[c].pc = "httpServer"
    /\ las' = [las EXCEPT ![c].pc = "dnsServer",
                          ![c].httpServer = [made |-> TRUE, inShutdown |-> FALSE,
                                             TLSConfig |-> las[c].tlsConfig]]
    /\ exporter' = [exporter EXCEPT !.httpServer = c]
    /\ UNCHANGED <<closes, proc, crashed, orchFrame>>

\* One iteration of "for _, domain := range wuDomains":
\* localDomains[domain+"."] = e.exporterIP
BuildLocalDomains(c) ==
    LET m == las[c].localDomains
        k == Cardinality(DOMAIN m) + 1
    IN
    /\ Alive
    /\ las[c].pc = "dnsServer"
    /\ k <= Len(wuDomains)
    /\ las' = [las EXCEPT ![c].localDomains =
                   [n \in DOMAIN m \cup {wuDomains[k] \o "."} |->
                       IF n \in DOMAIN m THEN m[n] ELSE exporter.exporterIP]]
    /\ UNCHANGED <<exporter, closes, proc, crashed, orchFrame>>

\* A setup that would make the DNS server from the table as it is, without
\* waiting for the loop over wuDomains to end.
SetupDNSEarly(c) ==
    /\ Alive
    /\ las[c].pc = "dnsServer"
    /\ las' = [las EXCEPT ![c].pc = "goDNS",
                          ![c].dnsServer =
                              [made |-> TRUE,
                               records |-> NewServer(
                                   [UpstreamResolver |-> Upstream,
                                    Records |-> las[c].localDomains,
                                    ForwardDomains |-> forwardDomains]).records,
                               dnsServer |-> FALSE, started |-> FALSE]]
    /\ exporter' = [exporter EXCEPT !.dnsServer = c]
    /\ UNCHANGED <<closes, proc, crashed, orchFrame>>

\* After the loop: e.dnsServer = dns.NewServer(dns.Config{..., Records:
\* localDomains, ...})
SetupDNS(c) ==
    /\ Alive
    /\ las[c].pc = "dnsServer"
    /\ Cardinality(DOMAIN las[c].localDomains) = Len(wuDomains)
    /\ las' = [las EXCEPT ![c].pc = "goDNS",
                          ![c].dnsServer =
                              [made |-> TRUE,
                               records |-> NewServer(
                                   [UpstreamResolver |-> Upstream,
                                    Records |-> las[c].localDomains,
                                    ForwardDomains |-> forwardDomains]).records,
                               dnsServer |-> FALSE, started |-> FALSE]]
    /\ exporter' = [exporter EXCEPT !.dnsServer = c]
    /\ UNCHANGED <<closes, proc, crashed, orchFrame>>

\* errg.Go of the DNS task, if a DNS listen address is configured.
GoDNS(c) ==
    /\ Alive
    /\ las[c].pc = "goDNS"
    /\ las' = [las EXCEPT ![c].pc = "goHTTP",
                          ![c].tasks["dns"].pc =
                              IF exporter.dnsListenAddress # "" THEN "go" ELSE "none"]
    /\ UNCHANGED <<exporter, closes, proc, crashed, orchFrame>>

\* errg.Go of the plaintext HTTP task.
GoHTTP(c) ==
    /\ Alive
    /\ las[c].pc = "goHTTP"
    /\ las' = [las EXCEPT ![c].pc = "goTLS", ![c].tasks["http"].pc = "go"]
    /\ UNCHANGED <<exporter, closes, proc, crashed, orchFrame>>

\* A launch of the TLS task that would wait for the plaintext listener to
\* bind or fail.
GoTLSAfterBind(c) ==
    /\ Alive
    /\ las[c].pc = "goTLS"
    /\ las[c].tasks["http"].pc \in {"serving", "returned"}
    /\ las' = [las EXCEPT ![c].pc = "Wait",
                          ![c].tasks["tls"].pc =
                              IF exporter.wuListenAddress # "" THEN "go" ELSE "none"]
    /\ UNCHANGED <<exporter, closes, proc, crashed, orchFrame>>

\* errg.Go of the TLS task, under the test of e.wuListenAddress.
GoTLS(c) ==
    /\ Alive
    /\ las[c].pc = "goTLS"
    /\ las' = [las EXCEPT ![c].pc = "Wait",
                          ![c].tasks["tls"].pc =
                              IF exporter.wuListenAddress # "" THEN "go" ELSE "none"]
    /\ UNCHANGED <<exporter, closes, proc, crashed, orchFrame>>

\* A task function returns err: the group keeps the first error that is not
\* nil.
Return(call, t, err) ==
    [call EXCEPT !.tasks[t] = [pc |-> "returned", err |-> err],
                 !.err = IF @ = "" THEN err ELSE @]

\* errg.Wait() returns once every task has returned, with the first error;
\* then the deferred CompareAndSwap(true, false) runs. The group ends with
\* the invocation.
\* A return of errg.Wait() without the deferred reset of the flag.
WaitStillRunning(c) ==
    /\ Alive
    /\ las[c].pc = "Wait"
    /\ \A t \in Tasks : las[c].tasks[t].pc \in {"none", "returned"}
    /\ las' = [las EXCEPT ![c].pc = "returned", ![c].result = las[c].err,
                          ![c].err = "", ![c].tasks = NewCall.tasks]
    /\ UNCHANGED <<exporter, closes, proc, crashed, orchFrame>>

Wait(c) ==
    /\ Alive
    /\ las[c].pc = "Wait"
    /\ \A t \in Tasks : las[c].tasks[t].pc \in {"none", "returned"}
    /\ las' = [las EXCEPT ![c].pc = "returned", ![c].result = las[c].err,
                          ![c].err = "", ![c].tasks = NewCall.tasks]
    /\ exporter' = [exporter EXCEPT !.running = FALSE]
    /\ UNCHANGED <<closes, proc, crashed, orchFrame>>

\* The DNS task, dns.Server.ListenAndServe: s.dnsServer = &dns.Server{...}
DNSMake(c) ==
    LET d == exporter.dnsServer IN
    /\ Alive
    /\ las[c].tasks["dns"].pc = "go"
    /\ las' = [las EXCEPT ![c].tasks["dns"].pc = "made",
                          ![d].dnsServer.dnsServer = TRUE]
    /\ UNCHANGED <<exporter, closes, proc, crashed, orchFrame>>

\* s.dnsServer.ListenAndServe(): the socket is bound and the server started,
\* or the bind fails.
DNSListen(c) ==
    LET d == exporter.dnsServer IN
    /\ Alive
    /\ las[c].tasks["dns"].pc = "made"
    /\ \/ las' = [las EXCEPT ![c] = Return(@, "dns", ErrListen)]
       \/ las' = [las EXCEPT ![c].tasks["dns"].pc = "serving",
                             ![d].dnsServer.started = TRUE]
    /\ UNCHANGED <<exporter, closes, proc, crashed, orchFrame>>

\* The serving DNS listener returns nil once the server has been shut down.
DNSReturns(c) ==
    /\ Alive
    /\ las[c].tasks["dns"].pc = "serving"
    /\ ~las[exporter.dnsServer].dnsServer.started
    /\ las' = [las EXCEPT ![c] = Return(@, "dns", "")]
    /\ UNCHANGED <<exporter, closes, proc, crashed, orchFrame>>

\* The serving DNS listener fails to read from its socket and returns the
\* error.
DNSFails(c) ==
    /\ Alive
    /\ las[c].tasks["dns"].pc = "serving"
    /\ las[exporter.dnsServer].dnsServer.started
    /\ las' = [las EXCEPT ![c] = Return(@, "dns", ErrServe)]
    /\ UNCHANGED <<exporter, closes, proc, crashed, orchFrame>>

\* The plaintext or TLS task: net.Listen, then e.httpServer.Serve(ln) or
\* ServeTLS(ln, "", ""), which returns at once on a server that is shutting
\* down.
HTTPListen(c, t) ==
    LET h == exporter.httpServer IN
    /\ Alive
    /\ t \in {"http", "tls"}
    /\ las[c].tasks[t].pc = "go"
    /\ \/ las' = [las EXCEPT ![c] = Return(@, t, ErrListen)]
       \/ /\ las[h].httpServer.inShutdown
          /\ las' = [las EXCEPT ![c] = Return(@, t, ErrServerClosed)]
       \/ /\ ~las[h].httpServer.inShutdown
          /\ las' = [las EXCEPT ![c].tasks[t].pc = "serving"]
    /\ UNCHANGED <<exporter, closes, proc, crashed, orchFrame>>

\* A serving HTTP listener returns ErrServerClosed once the server is
\* shutting down.
HTTPReturns(c, t) ==
    /\ Alive
    /\ t \in {"http", "tls"}
    /\ las[c].tasks[t].pc = "serving"
    /\ las[exporter.httpServer].httpServer.inShutdown
    /\ las' = [las EXCEPT ![c] = Return(@, t, ErrServerClosed)]
    /\ UNCHANGED <<exporter, closes, proc, crashed, orchFrame>>

\* A serving HTTP listener fails to accept and returns the error.
HTTPFails(c, t) ==
    /\ Alive
    /\ t \in {"http", "tls"}
    /\ las[c].tasks[t].pc = "serving"
    /\ ~las[exporter.httpServer].httpServer.inShutdown
    /\ las' = [las EXCEPT ![c] = Return(@, t, ErrServe)]
    /\ UNCHANGED <<exporter, closes, proc, crashed, orchFrame>>

\* An invocation of Close at its entry.
NewClose ==
    [pc |-> "Load", err |-> "", result |-> "",
     tasks |-> [t \in {"dns", "http"} |-> "none"]]

\* A goroutine calls e.Close().
CallClose ==
    /\ Alive
    /\ Len(las) + Len(closes) < MaxCalls
    /\ closes' = Append(closes, NewClose)
    /\ UNCHANGED <<exporter, las, proc, crashed, orchFrame>>

\* A Close that would start its shutdown tasks without testing the flag.
CloseUnchecked(k) ==
    /\ Alive
    /\ closes[k].pc = "Load"
    /\ closes' = [closes EXCEPT ![k] =
          [@ EXCEPT !.pc = "Wait", !.tasks = [t \in {"dns", "http"} |-> "go"]]]
    /\ UNCHANGED <<exporter, las, proc, crashed, orchFrame>>

\* if !e.running.Load() { return nil }; otherwise the context with the
\* deadline and the two errg.Go.
Close(k) ==
    /\ Alive
    /\ closes[k].pc = "Load"
    /\ closes' = [closes EXCEPT ![k] =
          IF exporter.running
          THEN [@ EXCEPT !.pc = "Wait", !.tasks = [t \in {"dns", "http"} |-> "go"]]
          ELSE [@ EXCEPT !.pc = "returned"]]
    /\ UNCHANGED <<exporter, las, proc, crashed, orchFrame>>

\* A shutdown task of Close returns err.
Returned(close, t, err) ==
    [close EXCEPT !.tasks[t] = "returned", !.err = IF @ = "" THEN err ELSE @]

\* e.dnsServer.Shutdown(ctx), that is s.dnsServer.ShutdownContext(ctx): a
\* nil e.dnsServer or a nil s.dnsServer is dereferenced, which panics; a
\* server that is not started returns an error; a started one is stopped,
\* and the call returns nil or, past the deadline, the context's error.
ShutdownDNS(k) ==
    LET d == exporter.dnsServer IN
    /\ Alive
    /\ closes[k].tasks["dns"] = "go"
    /\ IF d = Nil \/ ~las[d].dnsServer.dnsServer
       THEN /\ crashed' = TRUE
            /\ UNCHANGED <<closes, las>>
       ELSE IF ~las[d].dnsServer.started
       THEN /\ closes' = [closes EXCEPT ![k] = Returned(@, "dns", ErrNotStarted)]
            /\ UNCHANGED <<las, crashed>>
       ELSE /\ \E err \in {"", ErrDeadline} :
                 closes' = [closes EXCEPT ![k] = Returned(@, "dns", err)]
            /\ las' = [las EXCEPT ![d].dnsServer.started = FALSE]
            /\ UNCHANGED crashed
    /\ UNCHANGED <<exporter, proc, orchFrame>>

\* e.httpServer.Shutdown(ctx): a nil e.httpServer is dereferenced, which
\* panics; otherwise the server is shutting down from now on, its listeners
\* are closed, and the call returns nil or, past the deadline, the context's
\* error.
ShutdownHTTP(k) ==
    LET h == exporter.httpServer IN
    /\ Alive
    /\ closes[k].tasks["http"] = "go"
    /\ IF h = Nil
       THEN /\ crashed' = TRUE
            /\ UNCHANGED <<closes, las>>
       ELSE /\ \E err \in {"", ErrDeadline} :
                 closes' = [closes EXCEPT ![k] = Returned(@, "http", err)]
            /\ las' = [las EXCEPT ![h].httpServer.inShutdown = TRUE]
            /\ UNCHANGED crashed
    /\ UNCHANGED <<exporter, proc, orchFrame>>

\* errg.Wait() of Close; the group ends with the invocation.
CloseWait(k) ==
    /\ Alive
    /\ closes[k].pc = "Wait"
    /\ \A t \in {"dns", "http"} : closes[k].tasks[t] = "returned"
    /\ closes' = [closes EXCEPT ![k] =
          [NewClose EXCEPT !.pc = "returned", !.result = closes[k].err]]
    /\ UNCHANGED <<exporter, las, proc, crashed, orchFrame>>

\* The steps of the exporter's own goroutines.
ExporterNext ==
    \/ \E c \in DOMAIN las : Guard(c)
    \/ \E c \in DOMAIN las : GenTLSCertificate(c)
    \/ \E c \in DOMAIN las : SetupHTTP(c)
    \/ \E c \in DOMAIN las : BuildLocalDomains(c)
    \/ \E c \in DOMAIN las : SetupDNS(c)
    \/ \E c \in DOMAIN las : GoDNS(c)
    \/ \E c \in DOMAIN las : GoHTTP(c)
    \/ \E c \in DOMAIN las : GoTLS(c)
    \/ \E c \in DOMAIN las : Wait(c)
    \/ \E c \in DOMAIN las : DNSMake(c)
    \/ \E c \in DOMAIN las : DNSListen(c)
    \/ \E c \in DOMAIN las : DNSReturns(c)
    \/ \E c \in DOMAIN las : \E t \in Tasks : HTTPListen(c, t)
    \/ \E c \in DOMAIN las : \E t \in Tasks : HTTPReturns(c, t)
    \/ \E k \in DOMAIN closes : Close(k)
    \/ \E k \in DOMAIN closes : ShutdownDNS(k)
    \/ \E k \in DOMAIN closes : ShutdownHTTP(k)
    \/ \E k \in DOMAIN closes : CloseWait(k)

\* The failures of sockets that are being served.
ListenerFails ==
    \/ \E c \in DOMAIN las : DNSFails(c)
    \/ \E c \in DOMAIN las : \E t \in Tasks : HTTPFails(c, t)

OrchNext == CallListenAndServe \/ CallClose \/ ExporterNext \/ ListenerFails

(***************************************************************************)
(* cmd/pws_exporter: run()                                                 *)
(***************************************************************************)
\* run() before it starts anything.
NewProc == [pc |-> "run", signal |-> FALSE, metricsServer |-> "none", exit |-> 0]

\* run() up to its select: parseLogLevel and NewExporter, whose errors end
\* the process with status 1, then the goroutine of ex.ListenAndServe() and
\* the goroutine of the metrics server.
Run ==
    /\ ~crashed
    /\ proc.pc = "run"
    /\ \/ /\ proc' = [proc EXCEPT !.pc = "exited", !.exit = 1]
          /\ UNCHANGED las
       \/ /\ proc' = [proc EXCEPT !.pc = "select", !.metricsServer = "go"]
          /\ las' = Append(las, NewCall)
    /\ UNCHANGED <<exporter, closes, crashed, orchFrame>>

\* srv.ListenAndServe() of the metrics server binds, or fails to.
MetricsListenAndServe ==
    /\ Alive
    /\ proc.metricsServer = "go"
    /\ \E r \in {"serving", "returned"} : proc' = [proc EXCEPT !.metricsServer = r]
    /\ UNCHANGED <<exporter, las, closes, crashed, orchFrame>>

\* The serving metrics server fails and returns its error.
MetricsFails ==
    /\ Alive
    /\ proc.metricsServer = "serving"
    /\ proc' = [proc EXCEPT !.metricsServer = "returned"]
    /\ UNCHANGED <<exporter, las, closes, crashed, orchFrame>>

\* SIGINT or SIGTERM reaches the process.
Signal ==
    /\ Alive
    /\ ~proc.signal
    /\ proc' = [proc EXCEPT !.signal = TRUE]
    /\ UNCHANGED <<exporter, las, closes, crashed, orchFrame>>

\* case <-ctx.Done(): run() returns 0.
SelectDone ==
    /\ Alive
    /\ proc.pc = "select"
    /\ proc.signal
    /\ proc' = [proc EXCEPT !.pc = "exited", !.exit = 0]
    /\ UNCHANGED <<exporter, las, closes, crashed, orchFrame>>

\* case err = <-exErr: ex.ListenAndServe() has returned, run() returns 1.
SelectExErr ==
    /\ Alive
    /\ proc.pc = "select"
    /\ las[1].pc = "returned"
    /\ proc' = [proc EXCEPT !.pc = "exited", !.exit = 1]
    /\ UNCHANGED <<exporter, las, closes, crashed, orchFrame>>

\* case err = <-httpErr: the metrics server has returned, run() calls
\* ex.Close().
SelectHTTPErr ==
    /\ Alive
    /\ proc.pc = "select"
    /\ proc.metricsServer = "returned"
    /\ proc' = [proc EXCEPT !.pc = "Close"]
    /\ closes' = Append(closes, NewClose)
    /\ UNCHANGED <<exporter, las, crashed, orchFrame>>

\* ex.Close() has returned: run() returns 1 on its error, and 1 as well on
\* the error of the metrics server, which is never nil.
SelectHTTPErrReturn ==
    /\ Alive
    /\ proc.pc = "Close"
    /\ closes[1].pc = "returned"
    /\ proc' = [proc EXCEPT !.pc = "exited", !.exit = 1]
    /\ UNCHANGED <<exporter, las, closes, crashed, orchFrame>>

\* The steps of run() and of the goroutines it starts.
ProcSteps ==
    \/ Run
    \/ MetricsListenAndServe
    \/ SelectDone
    \/ SelectExErr
    \/ SelectHTTPErr
    \/ SelectHTTPErrReturn

ProcNext == ProcSteps \/ ExporterNext \/ ListenerFails \/ MetricsFails \/ Signal

OrchInit ==
    /\ exporter = NewExporter("")
    /\ las = <<>>
    /\ closes = <<>>
    /\ proc = NewProc

WUInit ==
    /\ httpHandlers = <<>>
    /\ callbacks = <<>>
    /\ stationID = ""
    /\ lastMeasurement = <<>>

\* The exporter's own DNS server, for the specifications that are not about it.
ExporterDNS ==
    /\ dnsServer = NewServer(ExporterDNSConfig("192.0.2.10", Upstream))
    /\ dnsHandlers = <<>>

(***************************************************************************)
(* fromQuery and the unit conversions, called on their own                 *)
(***************************************************************************)
\* The parameters fromQuery reads with stof.
NumericParams ==
    { "rtfreq", "winddir", "windspeedmph", "windgustmph", "humidity", "dewptf",
      "tempf", "rainin", "dailyrainin", "baromin", "indoortempf",
      "indoorhumidity" }

\* What one parameter can hold: nothing, an empty value, a word, numbers.
ParamValues == {<<>>, <<"">>, <<"warm">>, <<"5">>, <<"-1">>, <<"63.5">>}

\* What dateutc and realtime can hold.
DateValues ==
    {<<>>, <<"">>, <<"now">>, <<"", "2025-01-02 03:04:05">>,
     <<"2025-01-02 03:04:05">>, <<"2025-01-02T03:04:05Z">>, <<"Now">>}
FlagValues == {<<>>, <<"">>, <<"1">>, <<"0">>, <<"true">>}

\* The queries fromQuery is given: the test query and a query without
\* readings, each with one numeric parameter replaced, and the test query
\* with every kind of dateutc and of realtime.
DecodeQueries ==
    { With(b, [k \in {f} |-> v]) :
        b \in {TestQuery(TestReadings, <<"now">>),
               TestQuery([k \in {} |-> <<>>], <<>>)},
        f \in NumericParams, v \in ParamValues }
    \cup { With(TestQuery(TestReadings, d), [realtime |-> r]) :
             d \in DateValues, r \in FlagValues }

\* dm.fromQuery(q) on a zero DeviceMeasurement, with the clock it reads.
Decode ==
    /\ decoded = <<>>
    /\ \E now \in Now :
          decoded' = <<[now |-> now, res |-> fromQuery(query, now)]>>
    /\ UNCHANGED <<query, convIn, convOut, dnsVars, wuVars, sinkVars, orchVars>>

\* The float32 values the conversions are given, in ten-thousandths: the
\* inputs of TestFtoC, TestInToMM, TestMPHToKPH and TestInHGToHPA, and whole
\* numbers.
ConvInputs ==
    {0, 10000, 25000, 50000, 100000, 299200, 320000, 450000, 600000, 775000,
     986000, 2120000}
    \cup {n * 10000 : n \in (0 - MaxWhole)..MaxWhole}

CallFtoc ==
    /\ convOut = <<>>
    /\ convOut' = <<"ftoc", ftoc(convIn)>>
    /\ UNCHANGED <<convIn, query, decoded, dnsVars, wuVars, sinkVars, orchVars>>

CallInToMM ==
    /\ convOut = <<>>
    /\ convOut' = <<"inToMM", inToMM(convIn)>>
    /\ UNCHANGED <<convIn, query, decoded, dnsVars, wuVars, sinkVars, orchVars>>

CallMphToKPH ==
    /\ convOut = <<>>
    /\ convOut' = <<"mphToKPH", mphToKPH(convIn)>>
    /\ UNCHANGED <<convIn, query, decoded, dnsVars, wuVars, sinkVars, orchVars>>

CallInHgToHPA ==
    /\ convOut = <<>>
    /\ convOut' = <<"inHgToHPA", inHgToHPA(convIn)>>
    /\ UNCHANGED <<convIn, query, decoded, dnsVars, wuVars, sinkVars, orchVars>>

ConvNext == CallFtoc \/ CallInToMM \/ CallMphToKPH \/ CallInHgToHPA

\* No lone call of fromQuery or of a conversion.
PureIdle ==
    /\ query = NoQuery
    /\ decoded = <<>>
    /\ convIn = 0
    /\ convOut = <<>>

Init == DNSInit /\ WUInit /\ SinkInit /\ OrchInit /\ PureIdle

WUOnlyInit == ExporterDNS /\ WUInit /\ SinkInit /\ OrchInit /\ PureIdle

\* One call of fromQuery, on any of the queries.
DecodeInit ==
    /\ ExporterDNS /\ WUInit /\ SinkInit /\ OrchInit
    /\ query \in DecodeQueries
    /\ decoded = <<>>
    /\ convIn = 0
    /\ convOut = <<>>

\* One call of one conversion, on any of the inputs.
ConvInit ==
    /\ ExporterDNS /\ WUInit /\ SinkInit /\ OrchInit
    /\ query = NoQuery
    /\ decoded = <<>>
    /\ convIn \in ConvInputs
    /\ convOut = <<>>

\* An exporter made by NewExporter, with or without a DNS listen address.
OrchOnlyInit ==
    /\ ExporterDNS /\ WUInit /\ SinkInit /\ PureIdle
    /\ \E a \in {"", ":53"} : exporter = NewExporter(a)
    /\ las = <<>>
    /\ closes = <<>>
    /\ proc = NewProc

Next == DNSNext \/ WUNext

Spec == Init /\ [][Next]_vars

\* The DNS responder alone.
DNSSpec == Init /\ [][DNSNext]_vars

\* The DNS responder as the exporter constructs it.
ExporterDNSSpec == WUOnlyInit /\ [][DNSNext]_vars

\* The capture endpoint alone.
WUSpec == WUOnlyInit /\ [][WUNext]_vars

\* The capture endpoint with the exporter's callback.
SinkSpec == WUOnlyInit /\ [][SinkNext]_vars

\* The exporter under callers of ListenAndServe and Close.
OrchSpec == OrchOnlyInit /\ [][OrchNext]_vars

\* The same, where every goroutine of the exporter that can take a step
\* eventually takes one; calls and socket failures may or may not happen.
OrchFairSpec == OrchSpec /\ WF_vars(ExporterNext)

\* fromQuery alone, as a function of the query and the clock.
DecodeSpec == DecodeInit /\ [][Decode]_vars

\* The unit conversions alone, as functions of their argument.
ConvSpec == ConvInit /\ [][ConvNext]_vars

\* The process of cmd/pws_exporter.
ProcSpec == OrchOnlyInit /\ [][ProcNext]_vars

\* The same, where every goroutine of the process that can take a step
\* eventually takes one; signals and socket failures may or may not happen.
ProcFairSpec == ProcSpec /\ WF_vars(ProcSteps \/ ExporterNext)

(***************************************************************************)
(* Properties of the DNS responder (checked under DNSSpec).                *)
(***************************************************************************)
Handlers == {dnsHandlers[i] : i \in DOMAIN dnsHandlers}

OneQuestion(h) == Len(h.msg.Question) = 1
QName(h) == h.msg.Question[1].Name
QType(h) == h.msg.Question[1].Qtype
InRecords(h) == QName(h) \in DOMAIN dnsServer.records
InForward(h) == QName(h) \in dnsServer.forwardDomains

\* m answers request r successfully with exactly one A record for `name`,
\* carrying the address `ip` denotes, with TTL 3600.
IsLocalAnswer(m, r, name, ip) ==
    /\ m.Response /\ m.Id = r.Id /\ m.Rcode = RcodeSuccess
    /\ Len(m.Answer) = 1
    /\ m.Answer[1].Name = name
    /\ m.Answer[1].Rrtype = TypeA
    /\ m.Answer[1].Ttl = 3600
    /\ m.Answer[1].A = ParseIP(ip)

\* m answers request r with NXDOMAIN and no answers.
IsNXDomain(m, r) ==
    /\ m.Response /\ m.Id = r.Id /\ m.Rcode = RcodeNameError
    /\ m.Answer = <<>>

\* C1: a request with exactly one question, of type A, for a key of the
\* Record Table never reaches the upstream resolver and, once ServeDNS has
\* returned, has been sent exactly one reply: a successful response with one
\* answer, an A record for the queried name with the address the table's
\* entry denotes and TTL 3600.
C1_LocalAnswer ==
    \A h \in Handlers :
        (OneQuestion(h) /\ QType(h) = TypeA /\ InRecords(h)) =>
            /\ h.exchanges = <<>>
            /\ h.pc \in {"ServeDNS", "done"}
            /\ h.pc = "ServeDNS" => h.replies = <<>>
            /\ h.pc = "done" =>
                 /\ Len(h.replies) = 1
                 /\ IsLocalAnswer(h.replies[1], h.msg, QName(h),
                                  dnsServer.records[QName(h)])

C1_Witness ==
    \E h \in Handlers :
        /\ h.pc = "done" /\ OneQuestion(h) /\ QType(h) = TypeA /\ InRecords(h)
        /\ Len(h.replies) = 1
        /\ h.replies[1].Answer[1].A = <<192, 0, 2, 10>>
        /\ dnsServer.records[QName(h)] = "192.0.2.10"

\* C2: a request with one question, of any type, for a name in neither the
\* Record Table nor the Forward Domain Set is never forwarded and, once
\* ServeDNS has returned, has been sent exactly one reply: NXDOMAIN with no
\* answers.
C2_Blackhole ==
    \A h \in Handlers :
        (OneQuestion(h) /\ ~InRecords(h) /\ ~InForward(h)) =>
            /\ h.exchanges = <<>>
            /\ h.pc \in {"ServeDNS", "done"}
            /\ h.pc = "ServeDNS" => h.replies = <<>>
            /\ h.pc = "done" =>
                 /\ Len(h.replies) = 1
                 /\ IsNXDomain(h.replies[1], h.msg)

C2_Witness ==
    \E h \in Handlers :
        /\ h.pc = "done" /\ OneQuestion(h) /\ QType(h) = TypeAAAA
        /\ ~InRecords(h) /\ ~InForward(h)
        /\ dnsServer.records # <<>>
        /\ Len(h.replies) = 1 /\ h.replies[1].Rcode = RcodeNameError

\* Whether a reply carries an address record.
HasAddress(m) ==
    \E k \in DOMAIN m.Answer : m.Answer[k].Rrtype \in {TypeA, TypeAAAA}

\* Only a single-question request for an element of the Forward Domain Set
\* reaches the upstream resolver.
ForwardedExactly ==
    \A h \in Handlers :
        h.exchanges # <<>> => OneQuestion(h) /\ InForward(h)

\* C3 as stated: only a request for an element of the Forward Domain Set is
\* forwarded, and a reply carries an address only when the queried name is a
\* key of the Record Table.
C3_Original ==
    /\ ForwardedExactly
    /\ \A h \in Handlers :
         \A k \in DOMAIN h.replies :
            HasAddress(h.replies[k]) => OneQuestion(h) /\ InRecords(h)

\* C3, amended: only a request for an element of the Forward Domain Set is
\* forwarded; a reply with an answer is either built from the Record Table,
\* for an A query whose name is a key of it, or is the upstream's response to
\* a request for an element of the Forward Domain Set; a request for a name
\* in neither is never forwarded and is sent no answer.
C3_ExactMatch ==
    /\ ForwardedExactly
    /\ \A h \in Handlers :
         \A k \in DOMAIN h.replies :
            h.replies[k].Answer # <<>> =>
                /\ OneQuestion(h)
                /\ \/ /\ QType(h) = TypeA /\ InRecords(h)
                      /\ h.exchanges = <<>>
                      /\ IsLocalAnswer(h.replies[k], h.msg, QName(h),
                                       dnsServer.records[QName(h)])
                   \/ /\ InForward(h)
                      /\ h.exchanges # <<>>
                      /\ h.replies[k] = h.res

\* A case variant of a Record Table key and a subdomain of a forward domain,
\* neither of them listed, have both been answered NXDOMAIN.
C3_Witness ==
    /\ "rtupdate.wunderground.com." \in DOMAIN dnsServer.records
    /\ "time.nist.gov." \in dnsServer.forwardDomains
    /\ \E h \in Handlers :
         /\ h.pc = "done" /\ OneQuestion(h) /\ QType(h) = TypeA
         /\ QName(h) = "RTUPDATE.wunderground.com."
         /\ ~InRecords(h) /\ ~InForward(h)
         /\ h.replies = <<Blackhole(h.msg)>>
    /\ \E h \in Handlers :
         /\ h.pc = "done" /\ OneQuestion(h)
         /\ QName(h) = "a.time.nist.gov."
         /\ ~InRecords(h) /\ ~InForward(h)
         /\ h.replies = <<Blackhole(h.msg)>>

\* A request that ServeDNS forwards: one question, in the Forward Domain Set,
\* not answered from the Record Table.
Forwarded(h) ==
    /\ OneQuestion(h) /\ InForward(h)
    /\ ~(QType(h) = TypeA /\ InRecords(h))

\* C4: for a request that is forwarded, the message handed to the upstream
\* resolver is the request itself, at the configured address; nothing is sent
\* to the client before Exchange has returned; and when it returned a
\* response, the one reply sent is that response.
C4_Relay ==
    \A h \in Handlers :
        Forwarded(h) =>
            /\ h.pc # "ServeDNS" =>
                 h.exchanges = <<[m |-> h.msg,
                                  address |-> dnsServer.upstreamResolver]>>
            /\ h.pc # "done" => h.replies = <<>>
            /\ (h.pc = "done" /\ ~h.err) =>
                 /\ h.res \in UpstreamResponses(h.msg)
                 /\ h.replies = <<h.res>>

C4_Witness ==
    \E h \in Handlers :
        /\ Forwarded(h) /\ h.pc = "done" /\ ~h.err
        /\ h.replies = <<h.res>>
        /\ h.res.Answer # <<>>

\* C5: when the exchange with the upstream resolver fails, nothing is ever
\* sent to the client for that request, and the exchange is made once.
C5_DropOnError ==
    \A h \in Handlers :
        h.err =>
            /\ h.replies = <<>>
            /\ Len(h.exchanges) = 1
            /\ h.pc \in {"Exchanged", "done"}

C5_Witness ==
    \E h \in Handlers :
        h.err /\ h.pc = "done" /\ h.replies = <<>> /\ Len(h.exchanges) = 1

\* C6: a request with no question or with more than one is never replied to,
\* never looked up in either table and never forwarded.
C6_NotOneQuestion ==
    \A h \in Handlers :
        ~OneQuestion(h) =>
            /\ h.replies = <<>>
            /\ h.lookups = {}
            /\ h.exchanges = <<>>
            /\ h.pc \in {"ServeDNS", "done"}

C6_Witness ==
    /\ \E h \in Handlers :
         h.pc = "done" /\ Len(h.msg.Question) = 0 /\ h.replies = <<>>
    /\ \E h \in Handlers :
         /\ h.pc = "done" /\ Len(h.msg.Question) = 2 /\ h.replies = <<>>
         /\ h.msg.Question[1].Name \in DOMAIN dnsServer.records

\* C7: an A query for a name in both tables is answered from the Record
\* Table and never forwarded.
C7_RecordFirst ==
    \A h \in Handlers :
        (OneQuestion(h) /\ QType(h) = TypeA /\ InRecords(h) /\ InForward(h)) =>
            /\ h.exchanges = <<>>
            /\ h.pc = "done" =>
                 /\ h.replies # <<>>
                 /\ h.replies[1].Rcode = RcodeSuccess
                 /\ Len(h.replies[1].Answer) = 1
                 /\ h.replies[1].Answer[1].A =
                        ParseIP(dnsServer.records[QName(h)])

C7_Witness ==
    \E h \in Handlers :
        /\ OneQuestion(h) /\ QType(h) = TypeA /\ InRecords(h) /\ InForward(h)
        /\ h.pc = "done"
        /\ h.replies # <<>>
        /\ h.replies[1].Answer[1].A = <<192, 0, 2, 20>>

\* C8 as stated: a query of a type other than A for a key of the Record
\* Table is answered NXDOMAIN and never forwarded, whatever the tables.
C8_Original ==
    \A h \in Handlers :
        (OneQuestion(h) /\ QType(h) # TypeA /\ InRecords(h)) =>
            /\ h.exchanges = <<>>
            /\ h.pc = "done" =>
                 /\ Len(h.replies) = 1
                 /\ IsNXDomain(h.replies[1], h.msg)

\* C8, amended: a query of a type other than A for a key of the Record Table
\* is never answered from the table; when the name is not in the Forward
\* Domain Set it is answered NXDOMAIN and never forwarded, and when it is, the
\* query is forwarded.
C8_OtherTypes ==
    \A h \in Handlers :
        (OneQuestion(h) /\ QType(h) # TypeA /\ InRecords(h)) =>
            /\ \A k \in DOMAIN h.replies :
                  h.replies[k].Answer # <<>> => h.replies[k] = h.res
            /\ ~InForward(h) =>
                 /\ h.exchanges = <<>>
                 /\ h.pc = "done" =>
                      /\ Len(h.replies) = 1
                      /\ IsNXDomain(h.replies[1], h.msg)
            /\ (InForward(h) /\ h.pc # "ServeDNS") => Len(h.exchanges) = 1

C8_Witness ==
    /\ \E h \in Handlers :
         /\ OneQuestion(h) /\ QType(h) = TypeAAAA /\ InRecords(h)
         /\ ~InForward(h) /\ h.pc = "done"
         /\ h.replies = <<Blackhole(h.msg)>>
    /\ \E h \in Handlers :
         /\ OneQuestion(h) /\ QType(h) = TypeAAAA /\ InRecords(h)
         /\ InForward(h) /\ h.pc = "done"
         /\ Len(h.exchanges) = 1

(***************************************************************************)
(* Properties of the capture endpoint (checked under WUSpec).              *)
(***************************************************************************)
\* The action parameter is absent or its value is not the literal, or ID is
\* absent, or PASSWORD is absent.
BadParams(q) ==
    \/ q["action"] = <<>>
    \/ q["action"] # <<>> /\ q["action"][1] # "updateraww"
    \/ q["ID"] = <<>>
    \/ q["PASSWORD"] = <<>>

\* dateutc has a value other than "" and "now" that is not a
\* YYYY-MM-DD HH:MM:SS time.
UnparsableDate(q) ==
    /\ q["dateutc"] # <<>>
    /\ q["dateutc"][1] \notin {"", "now"}
    /\ ~ParseInLocation(q["dateutc"][1])[2]

BadRequest == [status |-> 400, body |-> "Bad Request\n"]

\* C9 as stated: the response is the 400 one exactly when a checked
\* parameter is missing or the action is not the literal, and the callback
\* is never started for such a request.
C9_Original ==
    \A i \in DOMAIN httpHandlers :
        LET h == httpHandlers[i] IN
        /\ h.pc = "done" => (h.response = BadRequest <=> BadParams(h.q))
        /\ h.pc = "done" => (h.response.status = 400 <=> BadParams(h.q))
        /\ BadParams(h.q) => callbacks[i] = <<>>

\* C9, amended: the response is the 400 one exactly when a checked parameter
\* is missing, or the action is not the literal, or dateutc cannot be parsed;
\* and the callback is never started for a request that fails the check of
\* the parameters.
C9_BadRequest ==
    \A i \in DOMAIN httpHandlers :
        LET h == httpHandlers[i] IN
        /\ h.pc = "done" =>
             /\ h.response = BadRequest
                  <=> (BadParams(h.q) \/ UnparsableDate(h.q))
             /\ h.response.status = 400
                  <=> (BadParams(h.q) \/ UnparsableDate(h.q))
        /\ BadParams(h.q) =>
             /\ callbacks[i] = <<>>
             /\ h.pc \in {"ServeHTTP", "done"}

\* One request was rejected for its missing PASSWORD alone, another for its
\* dateutc alone.
C9_Witness ==
    /\ \E i \in DOMAIN httpHandlers :
         LET h == httpHandlers[i] IN
         /\ h.pc = "done" /\ h.response = BadRequest
         /\ Get(h.q, "action") = "updateraww" /\ Has(h.q, "ID")
         /\ h.q["PASSWORD"] = <<>>
         /\ callbacks[i] = <<>>
    /\ \E i \in DOMAIN httpHandlers :
         LET h == httpHandlers[i] IN
         /\ h.pc = "done" /\ h.response = BadRequest
         /\ ~BadParams(h.q) /\ UnparsableDate(h.q)

\* C10: a request that passes the check of the parameters and decodes has
\* started no callback before the go statement and exactly one after it,
\* whose station is the request's first ID value and whose measurement is
\* the one decoded from that request's query; and the response, once
\* written, is 200 with body "success\n".
C10_Accepted ==
    \A i \in DOMAIN httpHandlers :
        LET h == httpHandlers[i] IN
        (~BadParams(h.q) /\ ~UnparsableDate(h.q)) =>
            /\ h.pc = "ServeHTTP" => callbacks[i] = <<>>
            /\ h.pc # "ServeHTTP" =>
                 /\ Len(callbacks[i]) = 1
                 /\ callbacks[i][1].arg.deviceID = h.q["ID"][1]
                 /\ \E now \in Now :
                       callbacks[i][1].arg.dm = fromQuery(h.q, now).dm
            /\ h.pc # "done" => h.response = NoResponse
            /\ h.pc = "done" =>
                 h.response = [status |-> 200, body |-> "success\n"]

\* Two requests with different IDs were both accepted, and each one's
\* callback got its own ID; one carried tempf=63.5 and decoded to 17.5.
C10_Witness ==
    \E i, j \in DOMAIN httpHandlers :
        /\ httpHandlers[i].pc = "done" /\ httpHandlers[j].pc = "done"
        /\ httpHandlers[i].response.status = 200
        /\ httpHandlers[j].response.status = 200
        /\ Len(callbacks[i]) = 1 /\ Len(callbacks[j]) = 1
        /\ callbacks[i][1].arg.deviceID = "test"
        /\ callbacks[j][1].arg.deviceID = "KS1"
        /\ Get(httpHandlers[i].q, "tempf") = "63.5"
        /\ callbacks[i][1].arg.dm.Temperature = 175000
        /\ callbacks[i][1].arg.dm.DateUTC = "2025-01-02T03:04:05Z"

\* C12: a handler that has started its callback can always write its
\* response, whatever the callback has or has not done; no step of a callback
\* changes any handler; and a response, once written, never changes.
C12_NoWait ==
    /\ [](\A i \in DOMAIN httpHandlers :
            httpHandlers[i].pc = "WriteHeader" => ENABLED WriteSuccess(i))
    /\ [][\A i \in DOMAIN httpHandlers :
            /\ (callbacks[i] # <<>> /\ callbacks'[i] # callbacks[i]) =>
                  httpHandlers'[i] = httpHandlers[i]
            /\ httpHandlers[i].response # NoResponse =>
                  httpHandlers'[i].response = httpHandlers[i].response]_vars

\* One handler has answered 200 while its callback has not run, and another
\* answered 200 after its callback had finished.
C12_Witness ==
    \E i, j \in DOMAIN httpHandlers :
        /\ httpHandlers[i].pc = "done" /\ httpHandlers[i].response = Success
        /\ callbacks[i][1].pc = "started"
        /\ httpHandlers[j].pc = "done" /\ httpHandlers[j].response = Success
        /\ callbacks[j][1].pc = "done"

Ran == {c \in UNION {{callbacks[i][k] : k \in DOMAIN callbacks[i]} :
                         i \in DOMAIN callbacks} : c.pc = "done"}

CallbackIds ==
    UNION {{<<i, k>> : k \in DOMAIN callbacks[i]} : i \in DOMAIN callbacks}

Callback(id) == callbacks[id[1]][id[2]]

\* The callbacks of station s that have executed a statement.
Entered(s) ==
    {id \in CallbackIds : Callback(id).arg.deviceID = s /\ Callback(id).pc # "started"}

\* What the vectors hold for station s.
Series(s) ==
    [vec \in DOMAIN metrics |->
        IF s \in DOMAIN metrics[vec] THEN <<metrics[vec][s]>> ELSE <<>>]

\* The callback goroutines that execute a statement in the step.
Stepping == {id \in CallbackIds : Callback(id)' # Callback(id)}

DecodeFails(q) == ~BadParams(q) /\ UnparsableDate(q)

\* C11: a request that passes the check of the parameters and whose dateutc
\* does not parse never starts a callback and is answered 400 when its
\* handler returns; no step of its handler changes a metric vector, and every
\* step that changes one is a statement of the callback of a request that
\* decoded.
C11_DecodeFailure ==
    /\ [](\A i \in DOMAIN httpHandlers :
            DecodeFails(httpHandlers[i].q) =>
                /\ callbacks[i] = <<>>
                /\ httpHandlers[i].pc \in {"ServeHTTP", "done"}
                /\ httpHandlers[i].pc = "done" =>
                     httpHandlers[i].response = BadRequest)
    /\ [][/\ \A i \in DOMAIN httpHandlers :
               (DecodeFails(httpHandlers[i].q)
                    /\ httpHandlers'[i] # httpHandlers[i]) => metrics' = metrics
          /\ metrics' # metrics =>
               \E id \in Stepping : ~DecodeFails(httpHandlers[id[1]].q)]_vars

\* A request whose dateutc does not parse was answered 400 after the
\* callback of another request had written the series of its station.
C11_Witness ==
    \E i, j \in DOMAIN httpHandlers :
        /\ DecodeFails(httpHandlers[i].q)
        /\ httpHandlers[i].pc = "done" /\ httpHandlers[i].response.status = 400
        /\ callbacks[i] = <<>>
        /\ callbacks[j] # <<>> /\ callbacks[j][1].pc = "done"
        /\ j < i
        /\ "test" \in DOMAIN metrics.WindSpeed

\* C14: when the callbacks of a station that have run did so one after
\* another and all have returned, the rainfall counter of the station holds
\* the daily rain of the one that returned last.
C14_LastOnly ==
    \A s \in Stations :
        (Entered(s) # {} /\ Running(s) = {} /\ Entered(s) \cap overlapped = {}) =>
            /\ s \in DOMAIN metrics.Rain
            /\ metrics.Rain[s].value = Callback(lastDone[s]).arg.dm.RainToday

\* Two callbacks of station "test" ran one after the other, the first with
\* 1.0 in of daily rain and the second with 5 in, and the counter holds the
\* millimetres of 5 in.
C14_Witness ==
    \E a, b \in Entered("test") :
        /\ Running("test") = {} /\ Entered("test") \cap overlapped = {}
        /\ a # b /\ lastDone["test"] = b
        /\ Callback(a).arg.dm.RainToday = 254000
        /\ Callback(b).arg.dm.RainToday = 1270000
        /\ metrics.Rain["test"].value = 1270000

\* Station s holds exactly what one callback with measurement dm writes.
Holds(s, dm) ==
    /\ \A vec \in DOMAIN metrics : s \in DOMAIN metrics[vec]
    /\ metrics.BarometricPressure[s] = dm.Barometric
    /\ metrics.DewPoint[s] = dm.DewPoint
    /\ metrics.Humidity[s] * 100 = dm.Humidity
    /\ metrics.IndoorHumidity[s] * 100 = dm.IndoorHumidity
    /\ metrics.IndoorTemperature[s] = dm.IndoorTemp
    /\ metrics.RainPastHour[s] = dm.RainPastHour
    /\ metrics.Rain[s].value = dm.RainToday
    /\ metrics.Temperature[s] = dm.Temperature
    /\ metrics.WindDirection[s] = dm.WindDirection
    /\ metrics.WindGustSpeed[s] = dm.WindGust
    /\ metrics.WindSpeed[s] = dm.WindSpeed

\* C15: once every callback of a station has returned, the gauges and the
\* rainfall counter of the station hold the values of one single callback
\* of them.
C15_MutuallyExclusive ==
    \A s \in Stations :
        (Entered(s) # {} /\ \A id \in Entered(s) : Callback(id).pc = "done") =>
            \E id \in Entered(s) : Holds(s, Callback(id).arg.dm)

\* C16: a statement of a callback changes no series of a station other than
\* its own, and a callback that has not returned can execute its next
\* statement whatever the other callbacks do, as long as the process lives.
C16_OwnSeriesOnly ==
    /\ [][\A s \in Stations :
            Series(s)' # Series(s) =>
                \E id \in Stepping : Callback(id).arg.deviceID = s]_vars
    /\ [](\A id \in CallbackIds :
            (~crashed /\ Callback(id).pc # "done") =>
                ENABLED (\/ SetGauge(id[1], id[2]) \/ RainDelete(id[1], id[2])
                         \/ RainWith(id[1], id[2]) \/ RainAdd(id[1], id[2])))

\* The callbacks of two stations are running at the same time, and both
\* stations have series.
C16_Witness ==
    /\ Running("test") # {} /\ Running("KS1") # {}
    /\ "test" \in DOMAIN metrics.RainPastHour
    /\ "KS1" \in DOMAIN metrics.RainPastHour
    /\ metrics.RainPastHour["test"] # metrics.RainPastHour["KS1"]

\* C17: when the callback of a station that returned last ran without
\* another callback of the station running, and none runs now, every gauge of
\* the station holds the field of that callback's measurement, the two
\* humidities as a hundredth of the percentage.
C17_Gauges ==
    \A s \in Stations :
        (lastDone[s] # <<>> /\ lastDone[s] \notin overlapped /\ Running(s) = {}) =>
            LET dm == Callback(lastDone[s]).arg.dm IN
            /\ \A vec \in DOMAIN metrics : s \in DOMAIN metrics[vec]
            /\ metrics.BarometricPressure[s] = dm.Barometric
            /\ metrics.DewPoint[s] = dm.DewPoint
            /\ metrics.Temperature[s] = dm.Temperature
            /\ metrics.IndoorTemperature[s] = dm.IndoorTemp
            /\ metrics.WindDirection[s] = dm.WindDirection
            /\ metrics.WindSpeed[s] = dm.WindSpeed
            /\ metrics.WindGustSpeed[s] = dm.WindGust
            /\ metrics.RainPastHour[s] = dm.RainPastHour
            /\ metrics.Humidity[s] * 100 = dm.Humidity
            /\ metrics.IndoorHumidity[s] * 100 = dm.IndoorHumidity

\* A callback of station "test" with humidity 64 returned, then one with
\* humidity 44 ran alone and returned, and the gauge holds 0.44.
C17_Witness ==
    \E a, b \in Entered("test") :
        /\ a # b /\ lastDone["test"] = b /\ b \notin overlapped
        /\ Running("test") = {} /\ Callback(a).pc = "done"
        /\ Callback(a).arg.dm.Humidity = 640000
        /\ Callback(b).arg.dm.Humidity = 440000
        /\ metrics.Humidity["test"] = 4400
        /\ metrics.IndoorHumidity["test"] = 6400

(***************************************************************************)
(* Properties of the exporter's start and stop (checked under OrchSpec,    *)
(* OrchFairSpec, ProcSpec and ProcFairSpec).                               *)
(***************************************************************************)
\* A listener of invocation c has failed to bind or to serve.
ListenerFailed(c) ==
    /\ c \in DOMAIN las
    /\ \E t \in Tasks : /\ las[c].tasks[t].pc = "returned"
                        /\ las[c].tasks[t].err \in {ErrListen, ErrServe}

\* C18: once a listener of an invocation of ListenAndServe has failed to bind
\* or to serve, that invocation eventually returns an error, unless the
\* process dies first.
C18_FirstFailureStopsAll ==
    \A c \in 1..MaxCalls :
        (ListenerFailed(c) /\ ~crashed)
            ~> \/ crashed
               \/ /\ c \in DOMAIN las
                  /\ las[c].pc = "returned"
                  /\ las[c].result # ""

\* C19: once a listener of the exporter has failed to bind or to serve, the
\* process eventually ends with a status that is not zero (a process that
\* dies of a panic does), unless a signal has asked it to stop.
C19_FailureExits ==
    ListenerFailed(1)
        ~> (crashed \/ proc.signal \/ (proc.pc = "exited" /\ proc.exit # 0))

\* The invocations that have passed the guard and have not returned.
PastGuard == {c \in DOMAIN las : las[c].pc \notin {"guard", "returned"}}

\* C20: at most one invocation of ListenAndServe is past the guard; and a
\* step of an invocation that finds the flag set is its return of "already
\* running", which leaves the exporter (its flag and its server handles),
\* every other invocation, and its own tasks and servers as they were.
C20_RunningGuard ==
    /\ [](/\ Cardinality(PastGuard) <= 1
          /\ PastGuard # {} => exporter.running
          /\ \A c \in DOMAIN las :
                las[c].result = ErrAlreadyRunning =>
                    /\ las[c].pc = "returned"
                    /\ \A t \in Tasks : las[c].tasks[t].pc = "none"
                    /\ ~las[c].httpServer.made /\ ~las[c].dnsServer.made)
    /\ [][\A c \in DOMAIN las :
            (las[c].pc = "guard" /\ exporter.running /\ las'[c] # las[c]) =>
                /\ las'[c] = [las[c] EXCEPT !.pc = "returned",
                                            !.result = ErrAlreadyRunning]
                /\ exporter' = exporter
                /\ \A d \in DOMAIN las : d # c => las'[d] = las[d]]_vars

\* One invocation waits for its serving listeners while another has been
\* turned away; the flag is set and the handles are those of the first.
C20_Witness ==
    \E c, d \in DOMAIN las :
        /\ las[c].pc = "Wait" /\ las[c].tasks["http"].pc = "serving"
        /\ las[d].pc = "returned" /\ las[d].result = ErrAlreadyRunning
        /\ exporter.running
        /\ exporter.httpServer = c /\ exporter.dnsServer = c

\* C21: an invocation of Close that has found the exporter running and has
\* started its two shutdown tasks eventually returns.
C21_CloseReturns ==
    \A k \in 1..MaxCalls :
        (k \in DOMAIN closes /\ closes[k].pc = "Wait")
            ~> (k \in DOMAIN closes /\ closes[k].pc = "returned")

\* The Record Table of the exporter, completely built.
RecordTable == ExporterDNSConfig(exporter.exporterIP, Upstream).Records

\* The task t of invocation c has bound its socket.
Bound(c, t) == las[c].tasks[t].pc = "serving"

\* C22: whenever the TLS listener is bound, the certificate has been generated
\* and the TLS configuration is installed in the HTTP server it serves; every
\* DNS server that has been made holds the complete Record Table, so a DNS
\* listener that is bound (or about to bind) serves the complete table.
C22_ReadyBeforeBind ==
    \A c \in DOMAIN las :
        /\ Bound(c, "tls") =>
              /\ las[c].tlsConfig
              /\ exporter.httpServer # Nil
              /\ las[exporter.httpServer].httpServer.TLSConfig
        /\ las[c].dnsServer.made => las[c].dnsServer.records = RecordTable
        /\ las[c].tasks["dns"].pc \in {"go", "made", "serving"} =>
              /\ exporter.dnsServer # Nil
              /\ las[exporter.dnsServer].dnsServer.records = RecordTable

\* Both the TLS listener and the DNS listener of an invocation are bound.
C22_Witness ==
    \E c \in DOMAIN las :
        /\ Bound(c, "tls") /\ Bound(c, "dns")
        /\ las[exporter.httpServer].httpServer.TLSConfig
        /\ las[exporter.dnsServer].dnsServer.started
        /\ DOMAIN las[exporter.dnsServer].dnsServer.records =
               {"weatherstation.wunderground.com.", "rtupdate.wunderground.com."}

\* The lone call of fromQuery has returned: the clock it read, its
\* measurement and its error.
Decoded == decoded[1]

\* The values of dateutc that have the form YYYY-MM-DD HH:MM:SS, with the
\* time they denote in UTC.
WellFormedDates == {"2025-01-02 03:04:05"}
DenotedTime(v) == "2025-01-02T03:04:05Z"

\* The outcome of decoding the date d (the value of dateutc that is read)
\* when it is parsed.
DateParsed(d) ==
    IF d \in WellFormedDates
    THEN Decoded.res.err = "" /\ Decoded.res.dm.DateUTC = DenotedTime(d)
    ELSE Decoded.res.err = "parse dateutc"

\* The outcome of decoding when the current time is used.
DateNow == Decoded.res.err = "" /\ Decoded.res.dm.DateUTC = Decoded.now

\* C23 as stated: the current time is used exactly when dateutc is absent or
\* "now"; every other value, the empty one included, is parsed, and decoding
\* fails exactly when that parse fails.
C23_Original ==
    decoded # <<>> =>
        LET d == query["dateutc"] IN
        IF d = <<>> \/ d[1] = "now" THEN DateNow ELSE DateParsed(d[1])

\* C23: the current time is used exactly when dateutc is absent, empty or
\* "now"; every other value is parsed as YYYY-MM-DD HH:MM:SS in UTC, and
\* decoding fails, with an error that names dateutc, exactly when that parse
\* fails.
C23_Timestamp ==
    decoded # <<>> =>
        LET d == query["dateutc"] IN
        IF d = <<>> \/ d[1] \in {"", "now"} THEN DateNow ELSE DateParsed(d[1])

\* A query with an empty dateutc has been decoded.
C23_Witness ==
    /\ decoded # <<>>
    /\ query["dateutc"] = <<"">>
    /\ Decoded.res.err = ""
    /\ Decoded.res.dm.DateUTC \in Now

\* The record field each numeric parameter is stored in, and the conversion
\* it is stored through.
FieldOf ==
    [rtfreq |-> "RealTimeFreq", winddir |-> "WindDirection",
     windspeedmph |-> "WindSpeed", windgustmph |-> "WindGust",
     humidity |-> "Humidity", dewptf |-> "DewPoint", tempf |-> "Temperature",
     rainin |-> "RainPastHour", dailyrainin |-> "RainToday",
     baromin |-> "Barometric", indoortempf |-> "IndoorTemp",
     indoorhumidity |-> "IndoorHumidity"]

Designated ==
    [rtfreq |-> "none", winddir |-> "none", humidity |-> "none",
     indoorhumidity |-> "none",
     windspeedmph |-> "mphToKPH", windgustmph |-> "mphToKPH",
     dewptf |-> "ftoc", tempf |-> "ftoc", indoortempf |-> "ftoc",
     rainin |-> "inToMM", dailyrainin |-> "inToMM",
     baromin |-> "inHgToHPA"]

\* The parameter is absent, or its first value is no number.
Unparsable(q, f) == q[f] = <<>> \/ q[f][1] \in {"", "warm"}

\* The numerals of the queries, converted by hand, in ten-thousandths.
StoredAs(conv, v) ==
    CASE conv = "none" ->
           (CASE v = "5" -> 50000 [] v = "-1" -> 0 - 10000 [] v = "63.5" -> 635000
              [] v = "64" -> 640000 [] v = "270" -> 2700000 [] v = "44" -> 440000)
      [] conv = "ftoc" ->
           (CASE v = "5" -> 0 - 150000 [] v = "-1" -> 0 - 183333
              [] v = "63.5" -> 175000 [] v = "51.2" -> 106667
              [] v = "73.5" -> 230556)
      [] conv = "mphToKPH" ->
           (CASE v = "5" -> 80467 [] v = "-1" -> 0 - 16093 [] v = "63.5" -> 1021933
              [] v = "4.4" -> 70811 [] v = "4.9" -> 78858)
      [] conv = "inToMM" ->
           (CASE v = "5" -> 1270000 [] v = "-1" -> 0 - 254000
              [] v = "63.5" -> 16129000 [] v = "0.0" -> 0)
      [] conv = "inHgToHPA" ->
           (CASE v = "5" -> 1693195 [] v = "-1" -> 0 - 338639
              [] v = "63.5" -> 21503577 [] v = "29.65" -> 10040646)

\* What the field of parameter g holds after a decoding that did not fail.
ExpectedField(q, g) ==
    IF Unparsable(q, g) THEN 0 ELSE StoredAs(Designated[g], q[g][1])

\* The date of the query lets decoding succeed.
DateAccepted(q) ==
    \/ q["dateutc"] = <<>>
    \/ q["dateutc"][1] \in {"", "now"} \cup WellFormedDates

\* C24: a numeric parameter that is absent or unparsable leaves its own field
\* of the record at zero, does not make decoding fail, and has no effect on
\* the other fields: each of them holds what its own parameter gives, the
\* real-time flag and the date included.
C24_UnparsableIsZero ==
    decoded # <<>> =>
        \A f \in NumericParams :
            Unparsable(query, f) =>
               /\ Decoded.res.dm[FieldOf[f]] = 0
               /\ DateAccepted(query) =>
                    /\ Decoded.res.err = ""
                    /\ \A g \in NumericParams \ {f} :
                          Decoded.res.dm[FieldOf[g]] = ExpectedField(query, g)
                    /\ Decoded.res.dm.RealTime = (query["realtime"] = <<"1">>)
                    /\ Decoded.res.dm.DateUTC # ZeroTime

\* The test query with tempf replaced by a word has been decoded: the
\* temperature is zero and the dew point is that of dewptf=51.2.
C24_Witness ==
    /\ decoded # <<>>
    /\ query["tempf"] = <<"warm">>
    /\ query["dewptf"] = <<"51.2">>
    /\ Decoded.res.err = ""
    /\ Decoded.res.dm.Temperature = 0
    /\ Decoded.res.dm.DewPoint = 106667

\* C25: a numeric parameter that parses is stored in its own field through
\* its designated conversion: windspeedmph and windgustmph through mphToKPH,
\* dewptf, tempf and indoortempf through ftoc, rainin and dailyrainin through
\* inToMM, baromin through inHgToHPA, and winddir, humidity, indoorhumidity
\* and rtfreq as they are.
C25_DesignatedConversion ==
    (decoded # <<>> /\ Decoded.res.err = "") =>
        \A g \in NumericParams :
            ~Unparsable(query, g) =>
                Decoded.res.dm[FieldOf[g]] =
                    StoredAs(Designated[g], query[g][1])

\* A query with tempf=63.5 and humidity=64 has been decoded to 17.5 degrees
\* Celsius and 64 percent.
C25_Witness ==
    /\ decoded # <<>>
    /\ query["tempf"] = <<"63.5">>
    /\ query["humidity"] = <<"64">>
    /\ Decoded.res.dm.Temperature = 175000
    /\ Decoded.res.dm.Humidity = 640000

\* The Record Table is the two vendor submission domains, each with its
\* trailing dot and mapped to the exporter address the server was configured
\* with, and the Forward Domain Set is the five time servers.
TableAsConstructed ==
    /\ DOMAIN dnsServer.records =
           {"weatherstation.wunderground.com.", "rtupdate.wunderground.com."}
    /\ \A n \in DOMAIN dnsServer.records : dnsServer.records[n] = "192.0.2.10"
    /\ dnsServer.forwardDomains =
           {"time.nist.gov.", "time-nw.nist.gov.", "time-a.nist.gov.",
            "time-b.nist.gov.", "time.windows.com."}

\* C26: the Record Table of the exporter's DNS server is exactly the vendor
\* submission domains with a trailing dot, each mapped to the configured
\* exporter address, and no step of any query handler, in any interleaving,
\* changes the Record Table or the Forward Domain Set.
C26_TablesImmutable ==
    /\ []TableAsConstructed
    /\ [][dnsServer'.records = dnsServer.records
          /\ dnsServer'.forwardDomains = dnsServer.forwardDomains]_vars

\* Two handlers have finished, one that answered from the Record Table and
\* one that forwarded its query, and the tables are as constructed.
C26_Witness ==
    /\ TableAsConstructed
    /\ \E i, j \in DOMAIN dnsHandlers :
          /\ dnsHandlers[i].pc = "done" /\ dnsHandlers[j].pc = "done"
          /\ dnsHandlers[i].exchanges = <<>> /\ "records" \in dnsHandlers[i].lookups
          /\ Len(dnsHandlers[i].replies) = 1
          /\ dnsHandlers[i].replies[1].Answer # <<>>
          /\ dnsHandlers[j].exchanges # <<>>

\* The task t of invocation c has been launched.
Launched(c, t) == las[c].tasks[t].pc # "none"

\* C27: an invocation of ListenAndServe that has come to errg.Wait has
\* launched the plaintext HTTP task and the TLS task, and the DNS task
\* exactly when a DNS listen address is configured; each launch can be made
\* whatever the tasks launched before it have done, and a launched task can
\* bind whatever the others have done.
C27_SeparateTasks ==
    \A c \in DOMAIN las :
        /\ las[c].pc = "Wait" =>
              /\ Launched(c, "http") /\ Launched(c, "tls")
              /\ Launched(c, "dns") <=> exporter.dnsListenAddress # ""
        /\ Alive =>
              /\ las[c].pc = "goDNS" => ENABLED GoDNS(c)
              /\ las[c].pc = "goHTTP" => ENABLED GoHTTP(c)
              /\ las[c].pc = "goTLS" => ENABLED GoTLS(c)
              /\ las[c].tasks["dns"].pc = "go" => ENABLED DNSMake(c)
              /\ \A t \in {"http", "tls"} :
                    las[c].tasks[t].pc = "go" => ENABLED HTTPListen(c, t)

\* An invocation waits with its three tasks launched and none of them bound
\* yet.
C27_Witness ==
    \E c \in DOMAIN las :
        /\ las[c].pc = "Wait"
        /\ exporter.dnsListenAddress = ":53"
        /\ \A t \in Tasks : las[c].tasks[t].pc = "go"

\* A conversion has been called on x and has returned y.
Converted(fn, x, y) == convOut = <<fn, y>> /\ convIn = x

\* A conversion has been called on a test input.
ConvertedFrom(fn, x) == convOut # <<>> /\ convOut[1] = fn /\ convIn = x

\* C28 as stated: ftoc gives the outputs of the table of TestFtoC, to four
\* decimal places: 0 -> -17.7778, 32 -> 0, 77.5 -> 25.3, 98.6 -> 37,
\* 212 -> 100.
C28_TestFtoC ==
    /\ ConvertedFrom("ftoc", 0) => convOut[2] = 0 - 177778
    /\ ConvertedFrom("ftoc", 320000) => convOut[2] = 0
    /\ ConvertedFrom("ftoc", 775000) => convOut[2] = 253000
    /\ ConvertedFrom("ftoc", 986000) => convOut[2] = 370000
    /\ ConvertedFrom("ftoc", 2120000) => convOut[2] = 1000000

\* C29 as stated: inHgToHPA gives the outputs of the table of TestInHGToHPA,
\* to four decimal places: 0 -> 0, 1 -> 33.8639, 5 -> 169.3195,
\* 29.92 -> 1013.25.
C29_TestInHGToHPA ==
    /\ ConvertedFrom("inHgToHPA", 0) => convOut[2] = 0
    /\ ConvertedFrom("inHgToHPA", 10000) => convOut[2] = 338639
    /\ ConvertedFrom("inHgToHPA", 50000) => convOut[2] = 1693195
    /\ ConvertedFrom("inHgToHPA", 299200) => convOut[2] = 10132500

\* C30 as stated: mphToKPH gives the outputs of the table of TestMPHToKPH:
\* 0 -> 0, 1 -> 1.60934, 45 -> 72.4203, 60 -> 96.56064. The outputs are
\* compared to four decimal places, which the fifth cannot mend.
C30_TestMPHToKPH ==
    /\ ConvertedFrom("mphToKPH", 0) => convOut[2] = 0
    /\ ConvertedFrom("mphToKPH", 10000) => convOut[2] = 16093
    /\ ConvertedFrom("mphToKPH", 450000) => convOut[2] = 724203
    /\ ConvertedFrom("mphToKPH", 600000) => convOut[2] = 965606

\* C31: inToMM(i) is i * 25.4 for every input, and it gives the outputs of
\* the table of TestInToMM to four decimal places: 0 -> 0, 1 -> 25.4,
\* 2.5 -> 63.5, 10 -> 254.
C31_InToMM ==
    /\ (convOut # <<>> /\ convOut[1] = "inToMM") => convOut[2] * 10 = convIn * 254
    /\ ConvertedFrom("inToMM", 0) => convOut[2] = 0
    /\ ConvertedFrom("inToMM", 10000) => convOut[2] = 254000
    /\ ConvertedFrom("inToMM", 25000) => convOut[2] = 635000
    /\ ConvertedFrom("inToMM", 100000) => convOut[2] = 2540000

\* inToMM has been called on 2.5 inches and has returned 63.5 millimetres.
C31_Witness == Converted("inToMM", 25000, 635000)

\* The HTTP server handle of the exporter and the listener object inside its
\* DNS server are set.
ServersSet ==
    /\ exporter.httpServer # Nil
    /\ exporter.dnsServer # Nil
    /\ las[exporter.dnsServer].dnsServer.dnsServer

\* C32: whenever the running flag is true the HTTP server handle and the
\* listener object of the DNS server are set, and no shutdown task of Close
\* dereferences an unset server.
C32_ServersSet ==
    /\ exporter.running => ServersSet
    /\ ~crashed

\* The invocation k of Close found the exporter running, and both of its
\* shutdown tasks have returned nil: it returns nil.
ClosedWithoutError(k) ==
    /\ k \in DOMAIN closes
    /\ closes[k].pc = "Wait"
    /\ \A t \in {"dns", "http"} : closes[k].tasks[t] = "returned"
    /\ closes[k].err = ""

\* C33: once a Close of a running exporter returns nil, every invocation of
\* ListenAndServe that is past the guard eventually returns, with all of its
\* listeners stopped.
C33_CloseStopsAll ==
    \A k \in 1..MaxCalls :
        ClosedWithoutError(k) ~> (crashed \/ PastGuard = {})

\* C34: the step in which an invocation of ListenAndServe that passed the
\* guard returns leaves the running flag false, whatever the reason of the
\* return; the flag is false whenever no invocation is past the guard, and an
\* invocation that finds it false passes the guard.
C34_FlagReset ==
    /\ [](PastGuard = {} => ~exporter.running)
    /\ [][\A c \in DOMAIN las :
            /\ (c \in PastGuard /\ las'[c].pc = "returned") => ~exporter'.running
            /\ (las[c].pc = "guard" /\ ~exporter.running /\ las'[c] # las[c]) =>
                   (las'[c].pc = "cert" /\ exporter'.running)]_vars

\* An invocation has returned because Close shut its servers down, and a
\* later invocation has passed the guard and waits for its listeners.
C34_Witness ==
    \E c, d \in DOMAIN las :
        /\ c < d
        /\ las[c].pc = "returned" /\ las[c].result = ErrServerClosed
        /\ las[d].pc = "Wait" /\ exporter.running
        /\ \E k \in DOMAIN closes : closes[k].pc = "returned"

\* C35: the step of a Close that finds the running flag false is its return
\* of nil: it starts no shutdown task, and the exporter, its servers, every
\* invocation of ListenAndServe and every other Close are as they were.
C35_CloseNotRunning ==
    [][\A k \in DOMAIN closes :
          (closes[k].pc = "Load" /\ ~exporter.running /\ closes'[k] # closes[k]) =>
              /\ closes'[k] = [closes[k] EXCEPT !.pc = "returned"]
              /\ closes'[k].result = ""
              /\ \A t \in {"dns", "http"} : closes'[k].tasks[t] = "none"
              /\ exporter' = exporter
              /\ las' = las
              /\ crashed' = crashed
              /\ \A j \in DOMAIN closes : j # k => closes'[j] = closes[j]]_vars

\* Close has returned nil on an exporter whose ListenAndServe was never
\* called.
C35_Witness ==
    /\ las = <<>>
    /\ ~exporter.running /\ ~crashed
    /\ exporter.httpServer = Nil /\ exporter.dnsServer = Nil
    /\ \E k \in DOMAIN closes :
          /\ closes[k].pc = "returned" /\ closes[k].result = ""
          /\ \A t \in {"dns", "http"} : closes[k].tasks[t] = "none"

\* C36: no callback dies in the middle of its series updates, and the
\* rainfall counter of a station is never negative.
C36_RainCompletes ==
    /\ ~crashed
    /\ \A s \in DOMAIN metrics.Rain : metrics.Rain[s].value >= 0

====
